---- MODULE Spec2Model ----
(***************************************************************************)
(* Model of the session index cache (package cache) and of the Claude      *)
(* adapter it is built from (package claude), together with the refresh    *)
(* cycle of the TUI (read cache, BuildIncremental, write cache).           *)
(*                                                                         *)
(* Strings are sequences of tokens.  A token is an atomic run of ordinary  *)
(* characters ("a", "hi", "17") or one of the characters the code treats   *)
(* specially: tab, newline, carriage return, space, "/" and "-".  File     *)
(* names are UUID-like: they hold no whitespace token.                     *)
(*                                                                         *)
(* Time is counted in ticks of the filesystem clock; TicksPerSec ticks     *)
(* make one second, so that a time written to the cache as whole seconds   *)
(* loses its sub-second part.                                              *)
(***************************************************************************)
EXTENDS Integers, Sequences, FiniteSets, TLC

\* ------------------------------------------------------------------ bounds
\* Last tick of the clock.
MaxTime == 2
\* Ticks per second (sub-second resolution of file mtimes).
TicksPerSec == 2

\* ------------------------------------------------------------- characters
TAB == "\t"
NL == "\n"
CR == "\r"
SP == " "
SLASH == "/"
DASH == "-"

Whitespace == {TAB, NL, CR, SP}

EmptyStr == << >>

\* ------------------------------------------------------------------- time
\* time.Time{}: the zero time, earlier than every file time.  It stands a
\* whole number of seconds before the epoch.
ZeroTime == (0 - 2) * TicksPerSec

\* Midnight of the year-0 day that time.Parse gives a clock-only layout;
\* it lies before the zero time.
YearZeroTime == (0 - 4) * TicksPerSec

IsZero(t) == t = ZeroTime

Before(t, u) == t < u

After(t, u) == t > u

\* Time.Unix(): whole seconds, rounded down.
Unix(t) == t \div TicksPerSec

\* time.Unix(sec, 0)
TimeUnix(sec) == sec * TicksPerSec

\* Time.Format("15:04"): hour and minute of the day.
Format1504(t) ==
  LET m == (Unix(t) \div 60) % (60 * 24)
  IN  ToString(m \div 60) \o ":" \o ToString(m % 60)

\* Time.Format("2006-01-02"): the day.
Format20060102(t) ==
  "day" \o ToString(Unix(t) \div (60 * 60 * 24))

\* The integers that "%d" can meet in a cache file of this model.
Numerals == Unix(YearZeroTime) .. (Unix(MaxTime) + 1)

\* fmt.Sprintf("%d", n)
FormatInt(n) == ToString(n)

\* fmt.Sscanf(s, "%d", &n) with n initially 0: the leading integer of s, and
\* 0 when s does not start with one.
ParseInt(s) ==
  IF s # EmptyStr /\ \E n \in Numerals : FormatInt(n) = s[1]
  THEN CHOOSE n \in Numerals : FormatInt(n) = s[1]
  ELSE 0

\* time.Parse("15:04", s), its error dropped: the clock time on the year-0
\* day, and the zero time when s is not a clock time.
MinutesOfDay == 0 .. (Unix(MaxTime) + 1) \div 60

ParseClock(s) ==
  IF Len(s) = 1 /\ \E m \in MinutesOfDay : Format1504(TimeUnix(m * 60)) = s[1]
  THEN LET m == CHOOSE m \in MinutesOfDay : Format1504(TimeUnix(m * 60)) = s[1]
       IN  YearZeroTime + TimeUnix(m * 60)
  ELSE ZeroTime

\* ---------------------------------------------------------------- strings
\* strings.ReplaceAll(s, old, new) for a one-character old.
ReplaceAll(s, old, new) == [i \in 1..Len(s) |-> IF s[i] = old THEN new ELSE s[i]]

\* strings.Split(s, sep) for a one-character sep: the pieces between the
\* separators, one more than there are separators.
RECURSIVE Split(_, _)
Split(s, sep) ==
  IF \A i \in 1..Len(s) : s[i] # sep
  THEN << s >>
  ELSE LET k == CHOOSE i \in 1..Len(s) : s[i] = sep /\ \A j \in 1..(i-1) : s[j] # sep
       IN  << SubSeq(s, 1, k - 1) >> \o Split(SubSeq(s, k + 1, Len(s)), sep)

RECURSIVE Concat(_)
Concat(ss) == IF ss = << >> THEN << >> ELSE Head(ss) \o Concat(Tail(ss))

\* strings.TrimSpace
RECURSIVE TrimLeft(_)
TrimLeft(s) == IF s # << >> /\ Head(s) \in Whitespace THEN TrimLeft(Tail(s)) ELSE s

RECURSIVE TrimRight(_)
TrimRight(s) ==
  IF s # << >> /\ s[Len(s)] \in Whitespace THEN TrimRight(SubSeq(s, 1, Len(s) - 1)) ELSE s

TrimSpace(s) == TrimRight(TrimLeft(s))

\* bufio.ScanLines over a whole file: the lines between newlines, each
\* without one trailing carriage return; a file that ends in a newline has
\* no further empty line.
DropCR(l) == IF l # << >> /\ l[Len(l)] = CR THEN SubSeq(l, 1, Len(l) - 1) ELSE l

ScanLines(data) ==
  LET raw == Split(data, NL)
      kept == IF raw[Len(raw)] = << >> THEN SubSeq(raw, 1, Len(raw) - 1) ELSE raw
  IN  [i \in 1..Len(kept) |-> DropCR(kept[i])]

\* ------------------------------------------------------------ cache file
\* cache.Entry
Entry(sid, date, project, summary, parent) ==
  [SessionID |-> sid, Date |-> date, Project |-> project,
   Summary |-> summary, ParentSID |-> parent]

\* escapeTSV that leaves carriage returns in place.
escapeTSVKeepingCR(s) == ReplaceAll(ReplaceAll(s, TAB, SP), NL, SP)

\* Replace tabs and newlines with spaces.
escapeTSV(s) == ReplaceAll(ReplaceAll(ReplaceAll(s, TAB, SP), NL, SP), CR, SP)

unescapeTSV(s) == s

\* One row of Write: sid, HH:MM, project, summary, unix time, parent, date.
WriteLine(e) ==
  LET parentSID == IF e.ParentSID = EmptyStr THEN << DASH >> ELSE e.ParentSID
  IN  e.SessionID \o << TAB >> \o << Format1504(e.Date) >> \o << TAB >>
      \o escapeTSV(e.Project) \o << TAB >> \o escapeTSV(e.Summary) \o << TAB >>
      \o << FormatInt(Unix(e.Date)) >> \o << TAB >> \o parentSID \o << TAB >>
      \o << Format20060102(e.Date) >> \o << NL >>

\* cache.Write: the content of the file it leaves.
Write(entries) == Concat([i \in 1..Len(entries) |-> WriteLine(entries[i])])

\* The entry Read makes of one line with at least four columns.
\* ReadLine with the project and summary columns taken in the wrong order.
ReadLineSwapped(parts) ==
  LET date == IF Len(parts) >= 5 THEN TimeUnix(ParseInt(parts[5]))
              ELSE ParseClock(parts[2])
      parentSID == IF Len(parts) >= 6 /\ parts[6] # << DASH >> THEN parts[6]
                   ELSE EmptyStr
  IN  Entry(parts[1], date, unescapeTSV(parts[4]), unescapeTSV(parts[3]), parentSID)

\* ReadLine that takes the dash of the parent column for an id.
ReadLineKeepingDash(parts) ==
  LET date == IF Len(parts) >= 5 THEN TimeUnix(ParseInt(parts[5]))
              ELSE ParseClock(parts[2])
      parentSID == IF Len(parts) >= 6 THEN parts[6] ELSE EmptyStr
  IN  Entry(parts[1], date, unescapeTSV(parts[3]), unescapeTSV(parts[4]), parentSID)

ReadLine(parts) ==
  LET date == IF Len(parts) >= 5 THEN TimeUnix(ParseInt(parts[5]))
              ELSE ParseClock(parts[2])
      parentSID == IF Len(parts) >= 6 /\ parts[6] # << DASH >> THEN parts[6]
                   ELSE EmptyStr
  IN  Entry(parts[1], date, unescapeTSV(parts[3]), unescapeTSV(parts[4]), parentSID)

\* The loop of Read when it ends at the first row with too few columns.
RECURSIVE ReadLinesUntilShort(_)
ReadLinesUntilShort(lines) ==
  IF lines = << >> THEN << >>
  ELSE LET parts == Split(Head(lines), TAB)
       IN  IF Len(parts) < 4 THEN << >>
           ELSE << ReadLine(parts) >> \o ReadLinesUntilShort(Tail(lines))

\* The loop of Read when it takes only rows of exactly seven columns.
RECURSIVE ReadLinesOfSeven(_)
ReadLinesOfSeven(lines) ==
  IF lines = << >> THEN << >>
  ELSE LET parts == Split(Head(lines), TAB)
       IN  IF Len(parts) # 7 THEN ReadLinesOfSeven(Tail(lines))
           ELSE << ReadLine(parts) >> \o ReadLinesOfSeven(Tail(lines))

RECURSIVE ReadLines(_)
ReadLines(lines) ==
  IF lines = << >> THEN << >>
  ELSE LET parts == Split(Head(lines), TAB)
       IN  IF Len(parts) < 4 THEN ReadLines(Tail(lines))
           ELSE << ReadLine(parts) >> \o ReadLines(Tail(lines))

\* cache.Read of a file that exists.
Read(data) == ReadLines(ScanLines(data))

\* ------------------------------------------------------------- data files
\* A session file lies at <project>/<name>.jsonl, or, for an agent session,
\* at <project>/<parent>/subagents/<name>.jsonl.
Path(project, parent, name) == [project |-> project, parent |-> parent, name |-> name]

\* The empty path "".
NoPath == Path(EmptyStr, EmptyStr, EmptyStr)

\* A project directory named after a home path, and one with a plain name.
ProjHome == << DASH, "Users", DASH, "j", DASH, "code", DASH, "x" >>
ProjPlain == << "my", DASH, "proj" >>

PathA == Path(ProjHome, EmptyStr, << "a" >>)
PathG == Path(ProjHome, << "a" >>, << "g" >>)
PathB == Path(ProjPlain, EmptyStr, << "b" >>)

\* A file g.jsonl lying in the project directory itself, and an agent file
\* g.jsonl of the session b.
PathTopG == Path(ProjHome, EmptyStr, << "g" >>)
PathBG == Path(ProjPlain, << "b" >>, << "g" >>)

\* The ids generateUUID returns, in the order it returns them.
NewIds == << << "n1" >>, << "n2" >> >>

\* filepath.Join(dir, newID+".jsonl"): the file of that name next to p.
Sibling(p, name) == Path(p.project, p.parent, name)

StartPaths == {PathA, PathG, PathB}

OldPaths == StartPaths \cup {PathTopG, PathBG}

Paths == OldPaths \cup {Sibling(p, NewIds[i]) : p \in OldPaths, i \in 1..Len(NewIds)}

\* filepath.Walk visits a directory's names in lexical order: the directory
\* a/ (holding subagents/g.jsonl) before a.jsonl, and ProjHome before
\* ProjPlain.
WalkOrder ==
  << PathG, Sibling(PathG, NewIds[1]), Sibling(PathG, NewIds[2]),
     PathA, PathTopG, Sibling(PathA, NewIds[1]), Sibling(PathA, NewIds[2]),
     PathBG, Sibling(PathBG, NewIds[1]), Sibling(PathBG, NewIds[2]),
     PathB, Sibling(PathB, NewIds[1]), Sibling(PathB, NewIds[2]) >>

\* One decoded line of a session file; ok is FALSE for a line that is not
\* valid JSON.
Rec(type, role, text) ==
  [ok |-> TRUE, long |-> FALSE, IsMeta |-> FALSE, Type |-> type, Summary |-> EmptyStr, Role |-> role,
   Content |-> [isString |-> TRUE, text |-> text, blocks |-> << >>],
   ParentSession |-> EmptyStr, SessionID |-> EmptyStr, AgentID |-> EmptyStr]

BadLine == [Rec("", "", EmptyStr) EXCEPT !.ok = FALSE]

\* A line longer than the scanner's buffer of 10 MB.
LongLine(r) == [r EXCEPT !.long = TRUE]

SummaryRec(text) == [Rec("summary", "", EmptyStr) EXCEPT !.Summary = text]

BranchRec(parent) == [Rec("branch", "", EmptyStr) EXCEPT !.ParentSession = parent]

AgentRec(r, parent, agent) == [r EXCEPT !.SessionID = parent, !.AgentID = agent]

BlocksRec(type, role, blocks) ==
  [Rec(type, role, EmptyStr) EXCEPT !.Content = [isString |-> FALSE, text |-> EmptyStr, blocks |-> blocks]]

\* A file as the filesystem holds it.
File(mtime, readable, lines) ==
  [exists |-> TRUE, mtime |-> mtime, readable |-> readable, lines |-> lines]

NoFile == [exists |-> FALSE, mtime |-> 0, readable |-> FALSE, lines |-> << >>]

\* ---------------------------------------------------------- claude adapter
\* The id ListSessions gives the file at p: the file name, and for a file in
\* a subagents directory the parent session's id, "/" and the file name.
SessionIdOf(p) == IF p.parent # EmptyStr THEN p.parent \o << SLASH >> \o p.name ELSE p.name

\* A walk callback that returns the error it is handed.
WalkFnPropagates(err) == err

\* What the walk callback returns when it is handed an error: nil.
WalkFnOnError(err) == "nil"

\* Insertion of x into a list sorted newest first, after the elements that
\* are not older than x (sort.Slice on a short slice is an insertion sort).
RECURSIVE InsertByMtime(_, _)
\* The order of a sort that puts the oldest file first.
RECURSIVE InsertByMtimeOldestFirst(_, _)
InsertByMtimeOldestFirst(x, sorted) ==
  IF sorted = << >> THEN << x >>
  ELSE IF Before(x.mtime, Head(sorted).mtime) THEN << x >> \o sorted
  ELSE << Head(sorted) >> \o InsertByMtimeOldestFirst(x, Tail(sorted))

InsertByMtime(x, sorted) ==
  IF sorted = << >> THEN << x >>
  ELSE IF After(x.mtime, Head(sorted).mtime) THEN << x >> \o sorted
  ELSE << Head(sorted) >> \o InsertByMtime(x, Tail(sorted))

RECURSIVE SortByMtime(_)
SortByMtime(sessions) ==
  IF sessions = << >> THEN << >>
  ELSE InsertByMtime(sessions[Len(sessions)], SortByMtime(SubSeq(sessions, 1, Len(sessions) - 1)))

\* sessionPaths[id] = path
PutPath(sessionPaths, id, path) ==
  [x \in DOMAIN sessionPaths \cup {id} |-> IF x = id THEN path ELSE sessionPaths[x]]

RECURSIVE PutPaths(_, _)
PutPaths(sessionPaths, ps) ==
  IF ps = << >> THEN sessionPaths
  ELSE PutPaths(PutPath(sessionPaths, SessionIdOf(Head(ps)), Head(ps)), Tail(ps))

\* ListSessions: the ids of the files under the data directory, newest
\* first, the error it returns, and the id-to-path cache it leaves.
ListSessions(fs, dirOK, sessionPaths) ==
  LET rootErr == IF dirOK THEN "nil" ELSE WalkFnOnError("lstat")
      walked == IF dirOK THEN SelectSeq(WalkOrder, LAMBDA p : fs[p].exists) ELSE << >>
      sessions == [i \in 1..Len(walked) |->
                     [id |-> SessionIdOf(walked[i]), mtime |-> fs[walked[i]].mtime]]
      sorted == SortByMtime(sessions)
  IN  IF rootErr # "nil"
      THEN [ids |-> << >>, err |-> rootErr, sessionPaths |-> sessionPaths]
      ELSE [ids |-> [i \in 1..Len(sorted) |-> sorted[i].id], err |-> "nil",
            sessionPaths |-> PutPaths(sessionPaths, walked)]

\* strings.SplitN(id, "/", 2)
SplitN2(id) ==
  IF \A i \in 1..Len(id) : id[i] # SLASH THEN << id >>
  ELSE LET k == CHOOSE i \in 1..Len(id) : id[i] = SLASH /\ \A j \in 1..(i-1) : id[j] # SLASH
       IN  << SubSeq(id, 1, k - 1), SubSeq(id, k + 1, Len(id)) >>

Contains(s, c) == \E i \in 1..Len(s) : s[i] = c

\* GetSessionFile: the cached path, or on a miss the first file of the walk
\* with the wanted name (for a composite id: not one lying under another
\* parent's subagents directory), which is then cached.
GetSessionFile(id, sessionPaths, fs, dirOK) ==
  IF id \in DOMAIN sessionPaths
  THEN [path |-> sessionPaths[id], sessionPaths |-> sessionPaths]
  ELSE LET searchPattern == IF Contains(id, SLASH) THEN SplitN2(id)[2] ELSE id
           Matches(p) ==
             /\ fs[p].exists
             /\ p.name = searchPattern
             /\ ~ (Contains(id, SLASH) /\ p.parent # EmptyStr /\ p.parent # SplitN2(id)[1])
           hits == IF dirOK THEN SelectSeq(WalkOrder, Matches) ELSE << >>
       IN  IF hits = << >>
           THEN [path |-> NoPath, sessionPaths |-> sessionPaths]
           ELSE [path |-> hits[1], sessionPaths |-> PutPath(sessionPaths, id, hits[1])]

\* parseFile: the decodable lines in order; an error when the file cannot
\* be opened.
\* The lines scanner.Scan() delivers: those before the first line that does
\* not fit the buffer.
Scanned(lines) ==
  IF \E i \in 1..Len(lines) : lines[i].long
  THEN SubSeq(lines, 1, (CHOOSE i \in 1..Len(lines) :
                           lines[i].long /\ \A j \in 1..(i - 1) : ~ lines[j].long) - 1)
  ELSE lines

\* parseFile: the records of the lines that decode, and the error of the
\* open or of the scanner.
parseFile(f) ==
  IF ~ f.readable THEN [records |-> << >>, err |-> "open"]
  ELSE [records |-> SelectSeq(Scanned(f.lines), LAMBDA r : r.ok),
        err |-> IF Scanned(f.lines) # f.lines THEN "ErrTooLong" ELSE "nil"]

RECURSIVE JoinSp(_)
JoinSp(texts) ==
  IF texts = << >> THEN << >>
  ELSE IF Len(texts) = 1 THEN texts[1]
  ELSE texts[1] \o << SP >> \o JoinSp(Tail(texts))

\* extractTextContent without the case of a string content.
extractTextContentOfBlocks(content) ==
  LET textBlocks == SelectSeq(content.blocks, LAMBDA b : b.type = "text")
  IN  JoinSp([i \in 1..Len(textBlocks) |-> textBlocks[i].text])

\* extractTextContent: a string content itself, or the text blocks of an
\* array content joined by spaces.
extractTextContent(content) ==
  IF content.isString THEN content.text
  ELSE LET textBlocks == SelectSeq(content.blocks, LAMBDA b : b.type = "text")
       IN  JoinSp([i \in 1..Len(textBlocks) |-> textBlocks[i].text])

truncate(s, maxLen) ==
  IF Len(s) <= maxLen THEN s ELSE SubSeq(s, 1, maxLen - 3) \o << "..." >>

\* extractFirstUserMessage: the first non-empty user text, else the first
\* non-empty assistant text, else "".
extractFirstUserMessage(records) ==
  LET texts(role) ==
        SelectSeq([i \in 1..Len(records) |->
                     IF records[i].Type = role /\ records[i].Role = role
                     THEN extractTextContent(records[i].Content) ELSE EmptyStr],
                  LAMBDA t : t # EmptyStr)
  IN  IF texts("user") # << >> THEN truncate(texts("user")[1], 100)
      ELSE IF texts("assistant") # << >> THEN truncate(texts("assistant")[1], 100)
      ELSE EmptyStr

\* extractProject: the project directory's name, decoded to a relative path
\* when it matches ^-Users-[^-]+-
extractProject(path) ==
  LET base == IF path.parent # EmptyStr THEN << "subagents" >> ELSE path.project
      project == IF base = << "subagents" >> THEN path.project ELSE base
      encoded == /\ Len(project) >= 5
                 /\ project[1] = DASH /\ project[2] = "Users" /\ project[3] = DASH
                 /\ project[4] # DASH /\ project[5] = DASH
  IN  IF encoded THEN ReplaceAll(SubSeq(project, 6, Len(project)), DASH, SLASH)
      ELSE project

\* adapters.SessionMeta
SessionMeta(id, date, project, summary, parent) ==
  [ID |-> id, Date |-> date, Project |-> project, Summary |-> summary, ParentSID |-> parent]

NoMeta == SessionMeta(EmptyStr, ZeroTime, EmptyStr, EmptyStr, EmptyStr)

\* An ExtractMeta that takes the parent of the branch record for an agent
\* session too.
MetaOfRecordsByBranch(id, path, info, records, isAgent) ==
  LET agents == SelectSeq(records, LAMBDA r : r.AgentID # EmptyStr)
      users == SelectSeq(records, LAMBDA r : r.Type = "user" /\ r.Role = "user")
      summaries == SelectSeq(records, LAMBDA r : r.Type = "summary" /\ r.Summary # EmptyStr)
      branches == SelectSeq(records, LAMBDA r : r.Type = "branch" /\ r.ParentSession # EmptyStr)
  IN  IF users # << >> /\ TrimSpace(extractTextContent(users[1].Content)) = << "Warmup" >>
      THEN [err |-> "ErrWarmupSession", meta |-> NoMeta]
      ELSE IF ~ \E i \in 1..Len(records) : records[i].Type \in {"user", "assistant"}
      THEN [err |-> "ErrNoMessages", meta |-> NoMeta]
      ELSE [err |-> "nil",
            meta |-> SessionMeta(
              id, info.mtime, extractProject(path),
              IF summaries # << >> THEN summaries[1].Summary
              ELSE extractFirstUserMessage(records),
              IF branches # << >> THEN branches[Len(branches)].ParentSession
              ELSE IF isAgent THEN agents[1].SessionID
              ELSE EmptyStr)]

\* ExtractMeta, once the file is parsed: ErrWarmupSession when the first user
\* message is "Warmup", ErrNoMessages when there is no user or assistant
\* record, else the metadata.  records is empty when parseFile failed.
MetaOfRecords(id, path, info, records, isAgent) ==
  LET agents == SelectSeq(records, LAMBDA r : r.AgentID # EmptyStr)
      users == SelectSeq(records, LAMBDA r : r.Type = "user" /\ r.Role = "user")
      summaries == SelectSeq(records, LAMBDA r : r.Type = "summary" /\ r.Summary # EmptyStr)
      branches == SelectSeq(records, LAMBDA r : r.Type = "branch" /\ r.ParentSession # EmptyStr)
  IN  IF users # << >> /\ TrimSpace(extractTextContent(users[1].Content)) = << "Warmup" >>
      THEN [err |-> "ErrWarmupSession", meta |-> NoMeta]
      ELSE IF ~ \E i \in 1..Len(records) : records[i].Type \in {"user", "assistant"}
      THEN [err |-> "ErrNoMessages", meta |-> NoMeta]
      ELSE [err |-> "nil",
            meta |-> SessionMeta(
              id, info.mtime, extractProject(path),
              IF summaries # << >> THEN summaries[1].Summary
              ELSE extractFirstUserMessage(records),
              IF isAgent THEN agents[1].SessionID
              ELSE IF branches # << >> THEN branches[Len(branches)].ParentSession
              ELSE EmptyStr)]

\* The records ExtractMeta works on: none when parseFile returned an error.
RecordsOf(parsed) == IF parsed.err = "nil" THEN parsed.records ELSE << >>

IsAgent(records) == \E i \in 1..Len(records) : records[i].AgentID # EmptyStr

\* ExtractMeta, once the id is resolved to path: the stat error when the
\* file is gone.
MetaOfFile(id, path, info) ==
  IF ~ info.exists THEN [err |-> "stat", meta |-> NoMeta]
  ELSE MetaOfRecords(id, path, info, RecordsOf(parseFile(info)),
                     IsAgent(RecordsOf(parseFile(info))))

MetaOfPath(id, path, fs) ==
  IF path = NoPath THEN [err |-> "ErrNotExist", meta |-> NoMeta]
  ELSE MetaOfFile(id, path, fs[path])

\* ExtractMeta: the session's metadata, or an error: os.ErrNotExist for an
\* unresolved id, the stat error, ErrWarmupSession, ErrNoMessages.
ExtractMeta(id, sessionPaths, fs, dirOK) ==
  MetaOfPath(id, GetSessionFile(id, sessionPaths, fs, dirOK).path, fs)

\* generateUUID: an id that names no file and no cached path yet; none when
\* the ids of the model are used up.
UsedIds(sessionPaths, fs) == {p.name : p \in {q \in Paths : fs[q].exists}} \cup DOMAIN sessionPaths

FreshIds(sessionPaths, fs) ==
  SelectSeq(NewIds, LAMBDA n : n \notin UsedIds(sessionPaths, fs))

\* What BranchSession returns and does.
Branched(newID, err, path, sessionPaths, fs) ==
  [newID |-> newID, err |-> err, path |-> path, sessionPaths |-> sessionPaths, fs |-> fs]

\* BranchSession once the source file is found and read: the copy with the
\* branch marker in front is written next to it and its path is cached.
\* This one forgets to cache the path.
BranchCopyUncached(id, newID, original, sessionPaths, fs, clock) ==
  Branched(newID, "nil", Sibling(original, newID), sessionPaths,
           [fs EXCEPT ![Sibling(original, newID)] =
              File(clock, TRUE, << BranchRec(id) >> \o fs[original].lines)])

BranchCopy(id, newID, original, sessionPaths, fs, clock) ==
  Branched(newID, "nil", Sibling(original, newID),
           PutPath(sessionPaths, newID, Sibling(original, newID)),
           [fs EXCEPT ![Sibling(original, newID)] =
              File(clock, TRUE, << BranchRec(id) >> \o fs[original].lines)])

\* BranchSession after GetSessionFile(id) returned found.
BranchFrom(id, newID, found, fs, clock) ==
  IF found.path = NoPath
  THEN Branched(EmptyStr, "ErrNotExist", NoPath, found.sessionPaths, fs)
  ELSE IF ~ (fs[found.path].exists /\ fs[found.path].readable)
  THEN Branched(EmptyStr, "read", NoPath, found.sessionPaths, fs)
  ELSE BranchCopy(id, newID, found.path, found.sessionPaths, fs, clock)

\* BranchSession(id), with newID what generateUUID returns and clock the
\* time of the write.
BranchSession(id, newID, sessionPaths, fs, dirOK, clock) ==
  BranchFrom(id, newID, GetSessionFile(id, sessionPaths, fs, dirOK), fs, clock)

\* adapters.Message
Message(role, timestamp, content, toolCalls) ==
  [Role |-> role, Timestamp |-> timestamp, Content |-> content, ToolCalls |-> toolCalls]

\* The texts joined without a separator.
RECURSIVE JoinTexts(_)
JoinTexts(blocks) ==
  IF blocks = << >> THEN EmptyStr ELSE Head(blocks).text \o JoinTexts(Tail(blocks))

\* The message ExportMessages makes of a user or assistant record; the
\* records of this model carry no timestamp, which parseTimestamp reads as 0.
MessageOfRecord(r) ==
  IF r.Content.isString THEN Message(r.Role, 0, r.Content.text, << >>)
  ELSE Message(r.Role, 0,
               JoinTexts(SelectSeq(r.Content.blocks, LAMBDA b : b.type = "text")),
               SelectSeq(r.Content.blocks, LAMBDA b : b.type = "tool_use"))

\* The loop of ExportMessages over the parsed records.
MessagesOf(records) ==
  LET kept == SelectSeq(records, LAMBDA r : r.Type \in {"user", "assistant"} /\ ~ r.IsMeta)
  IN  [i \in 1..Len(kept) |-> MessageOfRecord(kept[i])]

\* ExportMessages once the id is resolved to path.
ExportOfPath(path, fs) ==
  IF path = NoPath THEN [messages |-> << >>, err |-> "ErrNotExist"]
  ELSE IF parseFile(fs[path]).err # "nil"
  THEN [messages |-> << >>, err |-> parseFile(fs[path]).err]
  ELSE [messages |-> MessagesOf(parseFile(fs[path]).records), err |-> "nil"]

\* ExportMessages(id) of the log format.
ExportMessages(id, sessionPaths, fs, dirOK) ==
  ExportOfPath(GetSessionFile(id, sessionPaths, fs, dirOK).path, fs)

\* A message file of the tree format, with the text of its parts.
MsgFile(name, ok, created, role) ==
  [name |-> name, ok |-> ok, ID |-> name, Created |-> created, Role |-> role,
   Text |-> << name >>]

\* loadMessages: the message files that decode, in the order os.ReadDir
\* gives them, which is by name.
loadMessages(dir) == SelectSeq(dir, LAMBDA f : f.ok)

\* All the orders of the elements of seq.
Orders(seq) ==
  {[i \in 1..Len(seq) |-> seq[f[i]]] :
     f \in {g \in [1..Len(seq) -> 1..Len(seq)] : \A i, j \in 1..Len(seq) : i # j => g[i] # g[j]}}

\* A sort that leaves the messages as they were loaded.
LeftAsLoaded(messages) == {messages}

\* sort.Slice(messages, Created less): an order by creation time; sort.Slice
\* is not stable, so messages created together come in any order.
SortByCreated(messages) ==
  {t \in Orders(messages) : \A i, j \in 1..Len(t) : i < j => t[i].Created <= t[j].Created}

\* The loop of ExportMessages of the tree format over the sorted messages.
TreeMessages(sorted) ==
  [i \in 1..Len(sorted) |->
     Message(sorted[i].Role, sorted[i].Created \div 1000, sorted[i].Text, << >>)]

\* ExportMessages(id) of the tree format: what it may return.
ExportTree(dir) ==
  {[messages |-> TreeMessages(t), err |-> "nil"] : t \in SortByCreated(loadMessages(dir))}

\* ------------------------------------------------------ index cache build
\* existingMap[id]: the last of the existing entries with this id.
HasExisting(existing, id) == \E i \in 1..Len(existing) : existing[i].SessionID = id

\* A lookup that ignores the key.
ExistingEntryAnyId(existing, id) == existing[1]

ExistingEntry(existing, id) ==
  LET same == SelectSeq(existing, LAMBDA e : e.SessionID = id)
  IN  same[Len(same)]

\* The reuse test with the comparison turned round.
UseExistingAfter(cacheMtime, mtime, hasExisting) ==
  ~ IsZero(cacheMtime) /\ After(mtime, cacheMtime) /\ hasExisting

\* The reuse test without the comparison of mtimes.
UseExistingAnyAge(cacheMtime, mtime, hasExisting) ==
  ~ IsZero(cacheMtime) /\ hasExisting

\* The reuse test with "not after" for "before".
UseExistingNotAfter(cacheMtime, mtime, hasExisting) ==
  ~ IsZero(cacheMtime) /\ ~ After(mtime, cacheMtime) /\ hasExisting

\* The reuse test with the zero check the wrong way round.
UseExistingZeroToo(cacheMtime, mtime, hasExisting) ==
  (IsZero(cacheMtime) \/ Before(mtime, cacheMtime)) /\ hasExisting

\* "If cache exists and file is older, use existing entry"
UseExisting(cacheMtime, mtime, hasExisting) ==
  ~ IsZero(cacheMtime) /\ Before(mtime, cacheMtime) /\ hasExisting

\* An entry that names the session itself as its parent.
MetaEntryOwnParent(meta) == Entry(meta.ID, meta.Date, meta.Project, meta.Summary, meta.ID)

\* The entry made of fresh metadata.
MetaEntry(meta) == Entry(meta.ID, meta.Date, meta.Project, meta.Summary, meta.ParentSID)

\* A round of the loop that appends nothing.
NoStep(id, path, branch, mtime, metaErr) ==
  [id |-> id, path |-> path, branch |-> branch, mtime |-> mtime, meta |-> metaErr,
   appended |-> FALSE, entry |-> MetaEntry(NoMeta)]

\* A round of the loop that appends entry.
AppendStep(id, path, branch, mtime, entry) ==
  [id |-> id, path |-> path, branch |-> branch, mtime |-> mtime, meta |-> "nil",
   appended |-> TRUE, entry |-> entry]

\* The round of the loop for a session whose file was stat'ed: it appends
\* the existing entry, or calls ExtractMeta (m is what that returns) and
\* appends the fresh entry unless there is an error.
StepOfFile(id, existing, cacheMtime, sessionPath, info, m) ==
  IF UseExisting(cacheMtime, info.mtime, HasExisting(existing, id))
  THEN AppendStep(id, sessionPath, "reused", info.mtime, ExistingEntry(existing, id))
  ELSE IF m.err # "nil"
  THEN NoStep(id, sessionPath, "skipped", info.mtime, m.err)
  ELSE AppendStep(id, sessionPath, "parsed", info.mtime, MetaEntry(m.meta))

StepOfStat(id, existing, cacheMtime, sessionPath, info, m) ==
  IF ~ info.exists THEN NoStep(id, sessionPath, "statfail", ZeroTime, "nil")
  ELSE StepOfFile(id, existing, cacheMtime, sessionPath, info, m)

StepOfPath(id, existing, cacheMtime, sessionPath, fsStat, m) ==
  IF sessionPath = NoPath THEN NoStep(id, sessionPath, "unresolved", ZeroTime, "nil")
  ELSE StepOfStat(id, existing, cacheMtime, sessionPath, fsStat[sessionPath], m)

\* One round of the loop of BuildIncremental, for the listed session id:
\* the branch it takes, the mtime it sees and the entry it appends (if any).
\* fsStat is the filesystem when the loop stats the file, fsMeta when
\* ExtractMeta reads it.
BuildStep(id, existing, cacheMtime, sessionPaths, fsStat, fsMeta, dirOK) ==
  StepOfPath(id, existing, cacheMtime,
             GetSessionFile(id, sessionPaths, fsStat, dirOK).path, fsStat,
             ExtractMeta(id, sessionPaths, fsMeta, dirOK))

\* A loop that stops at the first round that appends nothing.
RECURSIVE AppendedUntilFailure(_)
AppendedUntilFailure(steps) ==
  IF steps = << >> THEN << >>
  ELSE IF Head(steps).appended
  THEN << Head(steps).entry >> \o AppendedUntilFailure(Tail(steps))
  ELSE << >>

\* A loop that puts each entry in front of the ones before.
RECURSIVE AppendedInFront(_)
AppendedInFront(steps) ==
  IF steps = << >> THEN << >>
  ELSE IF Head(steps).appended
  THEN AppendedInFront(Tail(steps)) \o << Head(steps).entry >>
  ELSE AppendedInFront(Tail(steps))

\* The entries the loop has appended, in the order of its rounds.
RECURSIVE Appended(_)
Appended(steps) ==
  IF steps = << >> THEN << >>
  ELSE IF Head(steps).appended THEN << Head(steps).entry >> \o Appended(Tail(steps))
  ELSE Appended(Tail(steps))

\* The rounds of the loop over the listed ids.
BuildLoop(ids, existing, cacheMtime, sessionPaths, fsStat, fsMeta, dirOK) ==
  [i \in 1..Len(ids) |->
     BuildStep(ids[i], existing, cacheMtime, sessionPaths, fsStat, fsMeta, dirOK)]

\* What BuildIncremental returns and does.
Built(entries, err, steps, cacheMtime, sessionPaths) ==
  [entries |-> entries, err |-> err, steps |-> steps, cacheMtime |-> cacheMtime,
   sessionPaths |-> sessionPaths]

\* BuildIncremental after the listing ls: the error of the listing, or the
\* entries of the loop.
BuildOfListing(ls, steps, cacheMtime) ==
  IF ls.err # "nil"
  THEN Built(<< >>, ls.err, << >>, cacheMtime, ls.sessionPaths)
  ELSE Built(Appended(steps), "nil", steps, cacheMtime, ls.sessionPaths)

BuildWith(ls, existing, cacheMtime, fsStat, fsMeta, dirOK) ==
  BuildOfListing(
    ls, BuildLoop(ls.ids, existing, cacheMtime, ls.sessionPaths, fsStat, fsMeta, dirOK),
    cacheMtime)

\* A cache mtime that is never read.
CacheMtimeUnset(cache) == ZeroTime

\* The cache mtime BuildIncremental records: the zero time without a cache.
CacheMtime(cache) == IF cache.exists THEN cache.mtime ELSE ZeroTime

\* BuildIncremental: the entries and error it returns, with the rounds of
\* its loop, the cache mtime it recorded and the id-to-path cache it leaves.
\* fsList is the filesystem when the sessions are listed.
BuildIncremental(cache, existing, sessionPaths, fsList, fsStat, fsMeta, dirOK) ==
  BuildWith(ListSessions(fsList, dirOK, sessionPaths), existing, CacheMtime(cache),
            fsStat, fsMeta, dirOK)

\* ------------------------------------------------------------------ state
VARIABLES
  now,           \* the filesystem clock
  fs,            \* the session files under the data directory, by path
  dataDirOK,     \* the data directory exists and can be read
  cacheFile,     \* sessions-cache.tsv: [exists, mtime, data]
  sessionPaths,  \* Adapter.sessionPaths: id -> path
  pc,            \* where the refresh command stands: "idle", "read", "built"
  existing,      \* refreshCache: the entries read from the cache
  build,         \* refreshCache: what BuildIncremental returned and did
  alone,         \* the entries of the same build without the sessions that failed
  parsedBefore,  \* paths a refresh has parsed and nobody has changed since
  parsedAgain,   \* the paths among them that the build in progress parsed
  unchanged,     \* nothing has changed on disk since the last build
  secondRun,     \* the build in progress began with nothing changed
  settled,       \* nothing has changed on disk since the refresh in progress read the cache
  ownCache,      \* every entry of the cache file comes from a parse by a refresh seen here
  edits,         \* changes by other programs and process exits so far
  call,          \* the adapter call that returned last, with what it returned
  shown,         \* the entry list on display, with the rows of each view
  thr,           \* the goroutines that use the adapter: where each stands
  rw,            \* Adapter.pathsMu: [readers, writer]
  msgDir,        \* the message files of a session kept as a tree of files
  front,         \* the browsing front end: what it shows and the commands it has in flight
  wr             \* the cache writes in progress: rows each has still to write

vars == << now, fs, dataDirOK, cacheFile, sessionPaths, pc, existing, build, alone,
           parsedBefore, parsedAgain, unchanged, secondRun, settled, ownCache, edits, call, shown, thr, rw, msgDir, front, wr >>

\* What the refresh cycle leaves alone.
others == << call, shown, thr, rw, msgDir, front, wr >>

\* Changes other programs make to the disk, and exits of the process amid a
\* write, in one behaviour.
MaxEdits == 1

NoCache == [exists |-> FALSE, mtime |-> ZeroTime, data |-> << >>]

\* No adapter call has returned yet.
NoCall ==
  [op |-> "none", id |-> EmptyStr, newID |-> EmptyStr, err |-> "nil", path |-> NoPath,
   out |-> << >>]

\* Nothing is on display.
NoShown == [entries |-> << >>, pins |-> {}, lines |-> << >>, items |-> << >>, view |-> "none"]

\* No front end runs.  ui is the program started ("tea", "picker", "export"),
\* listing the entries on display, loading the loading indicator, startup the
\* entries read when the picker started, fresh its cacheFresh, running the
\* commands in flight, msgs the completion messages not yet handled, reload
\* a reload posted to the picker and not yet run, served that the listing
\* shown at startup came from a cache file that was there, keys the refresh
\* keys pressed, and done the recomputations that have completed with the
\* entries of the last one.
NoFront ==
  [ui |-> "none", listing |-> << >>, loading |-> FALSE, startup |-> << >>, fresh |-> FALSE,
   running |-> << >>, msgs |-> << >>, reload |-> FALSE, served |-> FALSE, keys |-> 0,
   done |-> [n |-> 0, entries |-> << >>, err |-> "nil"]]

\* sync.RWMutex, not held.
Unlocked == [readers |-> 0, writer |-> FALSE]

NoBuild == [entries |-> << >>, err |-> "nil", steps |-> << >>, cacheMtime |-> ZeroTime]

\* ------------------------------------------------------- session contents
HelloLines == << Rec("user", "user", << "hi" >>) >>

WarmupLines == << Rec("user", "user", << SP, "Warmup", NL >>) >>

\* The log of HelloLines after a summary record was appended to it.
TitledLines == HelloLines \o << SummaryRec(<< "title" >>) >>

AgentLines ==
  << AgentRec(Rec("user", "user", << "do", TAB, "it" >>), << "a" >>, << "g" >>),
     BadLine,
     AgentRec(BlocksRec("assistant", "assistant",
                        << [type |-> "text", text |-> << "ok" >>] >>), << "a" >>, << "g" >>) >>

\* The log of AgentLines after a summary record was appended to it.
AgentTitledLines ==
  AgentLines \o << AgentRec(SummaryRec(<< "sub" >>), << "a" >>, << "g" >>) >>

\* An agent session whose only user message is the warmup marker.
AgentWarmupLines == << AgentRec(Rec("user", "user", << "Warmup" >>), << "a" >>, << "g" >>) >>

MetaOnlyLines == << SummaryRec(<< "old", SP, "title" >>) >>

BranchLines ==
  << BranchRec(<< "z" >>), SummaryRec(<< "fix", CR, NL, "bug" >>), Rec("user", "user", << "x" >>) >>

AssistantLines ==
  << BlocksRec("assistant", "assistant",
               << [type |-> "tool_use", text |-> << "t" >>],
                  [type |-> "text", text |-> << "done" >>] >>) >>

\* What a writer may leave in the file at p: whether it can be opened, and
\* its lines.
Contents(p) ==
  IF p = PathA THEN {[readable |-> TRUE, lines |-> HelloLines],
                     [readable |-> TRUE, lines |-> WarmupLines]}
  ELSE IF p = PathG THEN {[readable |-> TRUE, lines |-> AgentLines],
                          [readable |-> TRUE, lines |-> AgentWarmupLines],
                          [readable |-> TRUE, lines |-> MetaOnlyLines]}
  ELSE IF p = PathB THEN {[readable |-> TRUE, lines |-> BranchLines],
                          [readable |-> FALSE, lines |-> AssistantLines]}
  ELSE {}

\* A cache left by an earlier run, whose rows need not agree with the files:
\* rows for a and b with outdated summaries, and a row for a session that is
\* no longer on disk.
OldEntries ==
  << Entry(<< "b" >>, 0, ProjPlain, << "was", SP, "b" >>, EmptyStr),
     Entry(<< "gone" >>, 0, << "p" >>, << "deleted" >>, << "a" >>),
     Entry(<< "a" >>, 0, << "code", SLASH, "x" >>, << "was", SP, "a" >>, EmptyStr) >>

Init ==
  /\ now = 1
  /\ \E start \in [StartPaths -> {NoFile} \cup {File(0, c.readable, c.lines) :
                                        c \in UNION {Contents(p) : p \in StartPaths}}] :
       /\ \A p \in StartPaths :
            start[p].exists =>
              [readable |-> start[p].readable, lines |-> start[p].lines] \in Contents(p)
       /\ fs = [p \in Paths |-> IF p \in StartPaths THEN start[p] ELSE NoFile]
  /\ dataDirOK = TRUE
  /\ cacheFile \in {NoCache, [exists |-> TRUE, mtime |-> 1, data |-> Write(OldEntries)]}
  /\ sessionPaths = << >>
  /\ pc = "idle"
  /\ existing = << >>
  /\ build = NoBuild
  /\ alone = << >>
  /\ parsedBefore = {}
  /\ parsedAgain = {}
  /\ unchanged = FALSE
  /\ secondRun = FALSE
  /\ settled = FALSE
  /\ ownCache = FALSE
  /\ edits = 0
  /\ call = NoCall
  /\ shown = NoShown
  /\ thr = << >>
  /\ rw = Unlocked
  /\ msgDir = << >>
  /\ front = NoFront
  /\ wr = << >>

\* ---------------------------------------------------------- environment
\* The clock advances.
Tick ==
  /\ now < MaxTime
  /\ now' = now + 1
  /\ UNCHANGED others /\ UNCHANGED << fs, dataDirOK, cacheFile, sessionPaths, pc, existing, build, alone,
                  parsedBefore, parsedAgain, unchanged, secondRun, settled, ownCache, edits >>

\* The assistant creates the session file at p or appends to it.
WriteSession(p, c) ==
  /\ edits < MaxEdits
  /\ dataDirOK
  /\ fs' = [fs EXCEPT ![p] = File(now, c.readable, c.lines)]
  /\ parsedBefore' = parsedBefore \ {p}
  /\ unchanged' = FALSE
  /\ edits' = edits + 1
  /\ settled' = FALSE
  /\ UNCHANGED others /\ UNCHANGED << now, dataDirOK, cacheFile, sessionPaths, pc, existing, build, alone,
                  parsedAgain, secondRun, ownCache >>

\* The session file at p is removed from disk.
RemoveSession(p) ==
  /\ edits < MaxEdits
  /\ dataDirOK
  /\ fs[p].exists
  /\ fs' = [fs EXCEPT ![p] = NoFile]
  /\ parsedBefore' = parsedBefore \ {p}
  /\ unchanged' = FALSE
  /\ edits' = edits + 1
  /\ settled' = FALSE
  /\ UNCHANGED others /\ UNCHANGED << now, dataDirOK, cacheFile, sessionPaths, pc, existing, build, alone,
                  parsedAgain, secondRun, ownCache >>

\* The data directory becomes unreadable (unmounted, renamed away), or
\* readable again.
ToggleDataDir ==
  /\ edits < MaxEdits
  /\ dataDirOK' = ~ dataDirOK
  /\ unchanged' = FALSE
  /\ edits' = edits + 1
  /\ settled' = FALSE
  /\ UNCHANGED others /\ UNCHANGED << now, fs, cacheFile, sessionPaths, pc, existing, build, alone,
                  parsedBefore, parsedAgain, secondRun, ownCache >>

\* Cache.Clear: the cache file is removed.
Clear ==
  /\ edits < MaxEdits
  /\ cacheFile.exists
  /\ cacheFile' = NoCache
  /\ unchanged' = FALSE
  /\ edits' = edits + 1
  /\ settled' = FALSE
  /\ ownCache' = FALSE
  /\ UNCHANGED others /\ UNCHANGED << now, fs, dataDirOK, sessionPaths, pc, existing, build, alone,
                  parsedBefore, parsedAgain, secondRun >>

\* ------------------------------------------------------------ refreshCache
\* existing, _ := cache.Read(cacheFile)
RefreshRead ==
  /\ pc = "idle"
  /\ existing' = IF cacheFile.exists THEN Read(cacheFile.data) ELSE << >>
  /\ pc' = "read"
  /\ settled' = TRUE
  /\ UNCHANGED others /\ UNCHANGED << now, fs, dataDirOK, cacheFile, sessionPaths, build, alone,
                  parsedBefore, parsedAgain, unchanged, secondRun, ownCache, edits >>

\* The paths for which a build called ExtractMeta.
ParsedPaths(ss) ==
  {ss[i].path : i \in {j \in 1..Len(ss) : ss[j].branch \in {"parsed", "skipped"}}}

\* The listed ids whose round of the loop appended no entry.
FailedIds(ss) == {ss[i].id : i \in {j \in 1..Len(ss) : ~ ss[j].appended}}

\* The file system without the file at victim.
Without(files, victim) == [p \in Paths |-> IF p = victim THEN NoFile ELSE files[p]]

\* The listed ids of a build, without those whose round appended nothing.
KeptIds(ss) ==
  SelectSeq([i \in 1..Len(ss) |-> ss[i].id], LAMBDA id : id \notin FailedIds(ss))

\* The state a build leaves behind; b is what BuildIncremental returned.
AfterBuild(b, victim, fsStat, fsMeta) ==
  /\ build' = [entries |-> b.entries, err |-> b.err, steps |-> b.steps,
               cacheMtime |-> b.cacheMtime]
  /\ sessionPaths' = b.sessionPaths
  /\ fs' = fsMeta
  /\ alone' = Appended(BuildLoop(KeptIds(build'.steps), existing, build'.cacheMtime,
                                 sessionPaths', fsStat, fsMeta, dataDirOK))
  /\ parsedAgain' = ParsedPaths(build'.steps) \cap parsedBefore
  /\ parsedBefore' = (parsedBefore \cup ParsedPaths(build'.steps)) \ {victim}
  /\ secondRun' = (unchanged /\ victim = NoPath)
  /\ ownCache' = ownCache
  /\ settled' = (settled /\ victim = NoPath)
  /\ unchanged' = (victim = NoPath)
  /\ edits' = IF victim = NoPath THEN edits ELSE edits + 1
  /\ pc' = "built"
  /\ UNCHANGED others /\ UNCHANGED << now, dataDirOK, cacheFile, existing >>

BuildRacing(victim, fsStat, fsMeta) ==
  AfterBuild(BuildIncremental(cacheFile, existing, sessionPaths, fs, fsStat, fsMeta, dataDirOK),
             victim, fsStat, fsMeta)

\* entries, err := cache.BuildIncremental(m.adapter, cacheFile, existing)
\* While the build runs, another program may remove one session file: after
\* the listing and before the loop stats it (when = "stat"), or after the
\* stat and before ExtractMeta opens it (when = "meta").
RefreshBuild(victim, when) ==
  /\ pc = "read"
  /\ victim # NoPath => dataDirOK /\ fs[victim].exists /\ edits < MaxEdits
  /\ victim = NoPath => when = "stat"
  /\ BuildRacing(victim, IF when = "stat" THEN Without(fs, victim) ELSE fs,
                 Without(fs, victim))

\* The entries of a build all come from a parse by a refresh seen here: none
\* is reused, or the cache they are reused from held only such entries.
OwnEntries(steps, own) ==
  \A i \in 1..Len(steps) : steps[i].branch = "reused" => own

\* if err == nil { cache.Write(cacheFile, entries) }; the command returns.
RefreshWrite ==
  /\ pc = "built"
  /\ cacheFile' = IF build.err = "nil"
                  THEN [exists |-> TRUE, mtime |-> now, data |-> Write(build.entries)]
                  ELSE cacheFile
  /\ pc' = "idle"
  /\ existing' = << >>
  /\ build' = NoBuild
  /\ alone' = << >>
  /\ parsedAgain' = {}
  /\ secondRun' = FALSE
  /\ settled' = FALSE
  /\ ownCache' = IF build.err = "nil" THEN OwnEntries(build.steps, ownCache) ELSE ownCache
  /\ UNCHANGED others /\ UNCHANGED << now, fs, dataDirOK, sessionPaths, parsedBefore, unchanged, edits >>

\* The process exits while cache.Write is at work: the file was created or
\* truncated and holds the first k rows.
RefreshWriteCut(k) ==
  /\ pc = "built"
  /\ edits < MaxEdits
  /\ build.err = "nil"
  /\ k < Len(build.entries)
  /\ cacheFile' = [exists |-> TRUE, mtime |-> now, data |-> Write(SubSeq(build.entries, 1, k))]
  /\ pc' = "idle"
  /\ existing' = << >>
  /\ build' = NoBuild
  /\ alone' = << >>
  /\ parsedAgain' = {}
  /\ secondRun' = FALSE
  /\ settled' = FALSE
  /\ ownCache' = OwnEntries(build.steps, ownCache)
  /\ unchanged' = FALSE
  /\ sessionPaths' = << >>
  /\ edits' = edits + 1
  /\ UNCHANGED others /\ UNCHANGED << now, fs, dataDirOK, parsedBefore >>

Next ==
  \/ Tick
  \/ \E p \in Paths : \E c \in Contents(p) : WriteSession(p, c)
  \/ \E p \in Paths : RemoveSession(p)
  \/ ToggleDataDir
  \/ Clear
  \/ RefreshRead
  \/ \E victim \in Paths \cup {NoPath} : \E when \in {"stat", "meta"} : RefreshBuild(victim, when)
  \/ RefreshWrite
  \/ \E k \in 0..(Cardinality(StartPaths) - 1) : RefreshWriteCut(k)

Spec == Init /\ [][Next]_vars

\* ----------------------------------------------------- the adapter alone
\* A command that lists, looks up and branches sessions through one adapter,
\* over a data directory that also holds a file g.jsonl in a project
\* directory and an agent file g.jsonl of the session b.
BGLines == << AgentRec(Rec("user", "user", << "go" >>), << "b" >>, << "g" >>) >>

\* The files a path may hold when the command starts.
StartFiles(p) ==
  IF p = PathA THEN {NoFile, File(0, TRUE, HelloLines), File(0, FALSE, HelloLines)}
  ELSE IF p = PathG THEN {File(0, TRUE, AgentLines)}
  ELSE IF p = PathB THEN {File(1, TRUE, BranchLines)}
  ELSE IF p = PathTopG THEN {NoFile, File(0, TRUE, HelloLines)}
  ELSE IF p = PathBG THEN {NoFile, File(0, TRUE, BGLines)}
  ELSE {NoFile}

\* The ids a command may be given.
AskedIds ==
  {SessionIdOf(p) : p \in OldPaths} \cup {NewIds[i] : i \in 1..Len(NewIds)}

InitAdapter ==
  /\ now = 1
  /\ \E old \in [OldPaths -> UNION {StartFiles(p) : p \in OldPaths}] :
       /\ \A p \in OldPaths : old[p] \in StartFiles(p)
       /\ fs = [p \in Paths |-> IF p \in OldPaths THEN old[p] ELSE NoFile]
  /\ dataDirOK = TRUE
  /\ sessionPaths = << >>
  /\ call = NoCall
  /\ cacheFile = NoCache
  /\ pc = "idle"
  /\ existing = << >>
  /\ build = NoBuild
  /\ alone = << >>
  /\ parsedBefore = {}
  /\ parsedAgain = {}
  /\ unchanged = FALSE
  /\ secondRun = FALSE
  /\ settled = FALSE
  /\ ownCache = FALSE
  /\ edits = 0
  /\ shown = NoShown
  /\ thr = << >>
  /\ rw = Unlocked
  /\ msgDir = << >>
  /\ front = NoFront
  /\ wr = << >>

\* What the adapter's calls leave alone.
beyondAdapter ==
  << now, dataDirOK, cacheFile, pc, existing, build, alone, parsedBefore, parsedAgain,
     unchanged, secondRun, settled, ownCache, shown, thr, rw, msgDir, front, wr >>

\* adapter.ListSessions()
ListCall ==
  /\ sessionPaths' = ListSessions(fs, dataDirOK, sessionPaths).sessionPaths
  /\ call' = [op |-> "list", id |-> EmptyStr, newID |-> EmptyStr,
              err |-> ListSessions(fs, dataDirOK, sessionPaths).err, path |-> NoPath,
              out |-> ListSessions(fs, dataDirOK, sessionPaths).ids]
  /\ UNCHANGED << fs, edits >> /\ UNCHANGED beyondAdapter

\* adapter.GetSessionFile(id)
LookupCall(id) ==
  /\ sessionPaths' = GetSessionFile(id, sessionPaths, fs, dataDirOK).sessionPaths
  /\ call' = [op |-> "lookup", id |-> id, newID |-> EmptyStr, err |-> "nil",
              path |-> GetSessionFile(id, sessionPaths, fs, dataDirOK).path, out |-> << >>]
  /\ UNCHANGED << fs, edits >> /\ UNCHANGED beyondAdapter

\* The state BranchSession leaves; b is what it returned and did.
AfterBranch(id, b) ==
  /\ sessionPaths' = b.sessionPaths
  /\ fs' = b.fs
  /\ call' = [op |-> "branch", id |-> id, newID |-> b.newID, err |-> b.err, path |-> b.path,
              out |-> << >>]
  /\ edits' = edits + 1
  /\ UNCHANGED beyondAdapter

\* adapter.BranchSession(id)
BranchCall(id) ==
  /\ edits < MaxEdits
  /\ FreshIds(sessionPaths, fs) # << >>
  /\ AfterBranch(id, BranchSession(id, FreshIds(sessionPaths, fs)[1], sessionPaths, fs,
                                   dataDirOK, now))

\* The command ends and another starts, with a new adapter.
Restart ==
  /\ sessionPaths # << >>
  /\ sessionPaths' = << >>
  /\ call' = NoCall
  /\ UNCHANGED << fs, edits >> /\ UNCHANGED beyondAdapter

NextAdapter ==
  \/ ListCall
  \/ \E id \in AskedIds : LookupCall(id)
  \/ \E id \in AskedIds : BranchCall(id)
  \/ Restart

SpecAdapter == InitAdapter /\ [][NextAdapter]_vars

\* ------------------------------------------------------ the grouped views
\* The two consumers of an entry list: the rows formatForDisplay hands to the
\* external picker, and the list of the built-in interface.
MaxEntries == 3

ViewIds == << << "a" >>, << "b" >>, << "c" >> >>

\* What an entry of the list may name as its parent: nothing, the dash of an
\* empty cache column, an id of the list, or an id that is not in the list.
ViewParents == {EmptyStr, << DASH >>, << "z" >>} \cup {ViewIds[i] : i \in 1..Len(ViewIds)}

ViewDates == {0, MaxTime}

Range(s) == {s[i] : i \in 1..Len(s)}

IsRoot(e) == e.ParentSID = EmptyStr \/ e.ParentSID = << DASH >>

\* The rows of formatForDisplay; every row has seven columns.
HeaderLine(day) ==
  << << "---HEADER---" >>, day, << DASH >>, << DASH >>, "0", << DASH >>, "-" >>

RootLine(e) ==
  << e.SessionID, Format1504(e.Date), e.Project, e.Summary, FormatInt(Unix(e.Date)),
     e.ParentSID, Format20060102(e.Date) >>

BranchLine(e) ==
  << e.SessionID, "  |_ " \o Format1504(e.Date), e.Project, e.Summary, FormatInt(Unix(e.Date)),
     e.ParentSID, Format20060102(e.Date) >>

\* The branch rows of the entries of es that are in keep, in order.
RECURSIVE BranchLinesOf(_, _)
BranchLinesOf(es, keep) ==
  IF es = << >> THEN << >>
  ELSE (IF Head(es) \in keep THEN << BranchLine(Head(es)) >> ELSE << >>)
       \o BranchLinesOf(Tail(es), keep)

\* The loop over the roots, from the i-th root on: the header of the day
\* that ends, the root's row, and the rows of the branches that name it.
RECURSIVE RootBlocks(_, _, _, _)
RootBlocks(roots, branches, i, currentDate) ==
  IF i > Len(roots) THEN << >>
  ELSE (IF Format20060102(roots[i].Date) # currentDate /\ currentDate # ""
        THEN << HeaderLine(currentDate) >> ELSE << >>)
       \o << RootLine(roots[i]) >>
       \o BranchLinesOf(branches, {b \in Range(branches) : b.ParentSID = roots[i].SessionID})
       \o RootBlocks(roots, branches, i + 1, Format20060102(roots[i].Date))

\* formatForDisplay once roots and branches are separated.
FormatGrouped(roots, branches) ==
  RootBlocks(roots, branches, 1, "")
  \o (IF roots # << >> THEN << HeaderLine(Format20060102(roots[Len(roots)].Date)) >> ELSE << >>)
  \o BranchLinesOf(branches,
                   {b \in Range(branches) : \A i \in 1..Len(roots) : roots[i].SessionID # b.ParentSID})

\* formatForDisplay(entries)
formatForDisplay(entries) ==
  IF entries = << >> THEN << >>
  ELSE FormatGrouped(SelectSeq(entries, IsRoot), SelectSeq(entries, LAMBDA e : ~ IsRoot(e)))

\* An item of the interface's list: a DateHeader or a SessionItem.
NoEntry == Entry(EmptyStr, ZeroTime, EmptyStr, EmptyStr, EmptyStr)

DateHeader(date) ==
  [kind |-> "header", date |-> date, entry |-> NoEntry, isPinned |-> FALSE,
   isAgent |-> FALSE, depth |-> 0]

SessionItem(entry, isPinned, isAgent, depth) ==
  [kind |-> "session", date |-> "", entry |-> entry, isPinned |-> isPinned,
   isAgent |-> isAgent, depth |-> depth]

\* Time.Format("Monday, January 2, 2006")
FormatLongDate(t) == "long " \o Format20060102(t)

\* The order of the main sessions: pinned first, then the later date first.
MainLess(x, y, pins) ==
  IF (x.SessionID \in pins) # (y.SessionID \in pins)
  THEN x.SessionID \in pins
  ELSE After(x.Date, y.Date)

\* sort.SliceStable: x goes in front of the first element it is less than.
RECURSIVE InsertMain(_, _, _)
InsertMain(x, sorted, pins) ==
  IF sorted = << >> THEN << x >>
  ELSE IF MainLess(x, Head(sorted), pins) THEN << x >> \o sorted
  ELSE << Head(sorted) >> \o InsertMain(x, Tail(sorted), pins)

RECURSIVE SortMain(_, _)
SortMain(es, pins) ==
  IF es = << >> THEN << >>
  ELSE InsertMain(es[Len(es)], SortMain(SubSeq(es, 1, Len(es) - 1), pins), pins)

RECURSIVE InsertAgent(_, _)
InsertAgent(x, sorted) ==
  IF sorted = << >> THEN << x >>
  ELSE IF After(x.Date, Head(sorted).Date) THEN << x >> \o sorted
  ELSE << Head(sorted) >> \o InsertAgent(x, Tail(sorted))

RECURSIVE SortAgents(_)
SortAgents(es) ==
  IF es = << >> THEN << >>
  ELSE InsertAgent(es[Len(es)], SortAgents(SubSeq(es, 1, Len(es) - 1)))

\* agentsByParent[id], sorted; empty when the map has no such key.
AgentsByParent(filtered, id) ==
  SortAgents(SelectSeq(filtered, LAMBDA e : ~ IsRoot(e) /\ e.ParentSID = id))

RECURSIVE AgentItems(_, _)
AgentItems(agents, pins) ==
  IF agents = << >> THEN << >>
  ELSE << SessionItem(Head(agents), Head(agents).SessionID \in pins, TRUE, 1) >>
       \o AgentItems(Tail(agents), pins)

\* The loop over the sorted main sessions, from the i-th on.
RECURSIVE MainItems(_, _, _, _, _)
MainItems(mainSessions, filtered, pins, i, currentDate) ==
  IF i > Len(mainSessions) THEN << >>
  ELSE (IF FormatLongDate(mainSessions[i].Date) # currentDate
        THEN << DateHeader(FormatLongDate(mainSessions[i].Date)) >> ELSE << >>)
       \o << SessionItem(mainSessions[i], mainSessions[i].SessionID \in pins, FALSE, 0) >>
       \o AgentItems(AgentsByParent(filtered, mainSessions[i].SessionID), pins)
       \o MainItems(mainSessions, filtered, pins, i + 1, FormatLongDate(mainSessions[i].Date))

\* applyFilters with filterMode = FilterNone
applyFilters(sessions) == sessions

\* updateListItems: the items handed to m.list.SetItems.
updateListItems(sessions, pins) ==
  MainItems(SortMain(SelectSeq(applyFilters(sessions), IsRoot), pins),
            applyFilters(sessions), pins, 1, "")

\* The entry lists a cache file can hold: at most MaxEntries rows with
\* different ids.
ViewEntries ==
  {Entry(ViewIds[i], d, << "p" >>, << "s" >>, par) :
     i \in 1..Len(ViewIds), d \in ViewDates, par \in ViewParents}

EntryLists ==
  {es \in UNION {[1..n -> ViewEntries] : n \in 0..MaxEntries} :
     \A i, j \in 1..Len(es) : i # j => es[i].SessionID # es[j].SessionID}

InitView ==
  /\ \E es \in EntryLists : shown = [NoShown EXCEPT !.entries = es]
  /\ now = 1
  /\ fs = [p \in Paths |-> NoFile]
  /\ dataDirOK = TRUE
  /\ sessionPaths = << >>
  /\ call = NoCall
  /\ cacheFile = NoCache
  /\ pc = "idle"
  /\ existing = << >>
  /\ build = NoBuild
  /\ alone = << >>
  /\ parsedBefore = {}
  /\ parsedAgain = {}
  /\ unchanged = FALSE
  /\ secondRun = FALSE
  /\ settled = FALSE
  /\ ownCache = FALSE
  /\ edits = 0
  /\ thr = << >>
  /\ rw = Unlocked
  /\ msgDir = << >>
  /\ front = NoFront
  /\ wr = << >>

\* What the views leave alone.
beyondView ==
  << now, fs, dataDirOK, sessionPaths, call, cacheFile, pc, existing, build, alone,
     parsedBefore, parsedAgain, unchanged, secondRun, settled, ownCache, edits, thr, rw, msgDir, front, wr >>

\* The picker is started on the formatted rows of the cache.
RunPicker ==
  /\ shown.view = "none"
  /\ shown' = [shown EXCEPT !.lines = formatForDisplay(shown.entries), !.view = "picker"]
  /\ UNCHANGED beyondView

\* Update on loadSessionsMsg: m.sessions is set and the list rebuilt.
LoadSessions ==
  /\ shown.view = "none"
  /\ shown' = [shown EXCEPT !.items = updateListItems(shown.entries, shown.pins),
                            !.view = "list"]
  /\ UNCHANGED beyondView

\* A Toggle that never removes an id.
ToggleAddOnly(pins, id) == pins \cup {id}

\* pins.Toggle(id)
Toggle(pins, id) == IF id \in pins THEN pins \ {id} ELSE pins \cup {id}

\* Update on the pin key with the i-th item selected.
PinKey(i) ==
  /\ shown.view = "list"
  /\ i \in 1..Len(shown.items)
  /\ shown.items[i].kind = "session"
  /\ shown' = [shown EXCEPT
                 !.pins = Toggle(shown.pins, shown.items[i].entry.SessionID),
                 !.items = updateListItems(shown.entries,
                                           Toggle(shown.pins, shown.items[i].entry.SessionID))]
  /\ UNCHANGED beyondView

NextView ==
  \/ RunPicker
  \/ LoadSessions
  \/ \E i \in 1..(2 * MaxEntries) : PinKey(i)

SpecView == InitView /\ [][NextView]_vars

\* ------------------------------------------- goroutines on one adapter
\* Goroutines that share one adapter: one lists or branches, the others look
\* sessions up.  A goroutine's steps are the lock operations of pathsMu and
\* the accesses to the map sessionPaths between them.
NThreads == 3

Threads == 1..NThreads

Writer == 1

LockIds == {<< "a" >>, << "a", SLASH, "g" >>}

\* A goroutine: the call it is in, where it stands, the id it was given, the
\* path it holds, the key it is about to store, and where it goes on after
\* the store.
Goroutine(op, at, id, path, key, next, i) ==
  [op |-> op, pc |-> at, id |-> id, path |-> path, key |-> key, next |-> next, i |-> i]

Idle == Goroutine("none", "idle", EmptyStr, NoPath, EmptyStr, "idle", 0)

\* sync.RWMutex: RLock waits for the writer to leave.
CanRLock(m) == ~ m.writer

\* A Lock that does not wait for the readers to leave.
CanLockAmongReaders(m) == ~ m.writer

\* sync.RWMutex: Lock waits for the writer and for every reader to leave.
CanLock(m) == ~ m.writer /\ m.readers = 0

InitLock ==
  /\ thr = [t \in Threads |-> Idle]
  /\ rw = Unlocked
  /\ msgDir = << >>
  /\ front = NoFront
  /\ wr = << >>
  /\ sessionPaths = << >>
  /\ fs = [p \in Paths |-> IF p = PathA THEN File(0, TRUE, HelloLines)
                          ELSE IF p = PathG THEN File(0, TRUE, AgentLines)
                          ELSE NoFile]
  /\ now = 1
  /\ dataDirOK = TRUE
  /\ call = NoCall
  /\ cacheFile = NoCache
  /\ pc = "idle"
  /\ existing = << >>
  /\ build = NoBuild
  /\ alone = << >>
  /\ parsedBefore = {}
  /\ parsedAgain = {}
  /\ unchanged = FALSE
  /\ secondRun = FALSE
  /\ settled = FALSE
  /\ ownCache = FALSE
  /\ edits = 0
  /\ shown = NoShown

\* What no goroutine step touches.
beyondLock ==
  << now, dataDirOK, call, cacheFile, pc, existing, build, alone, parsedBefore, parsedAgain,
     unchanged, secondRun, settled, ownCache, shown, msgDir, front, wr >>

\* A goroutine calls GetSessionFile(id).
StartLookup(t, id) ==
  /\ t # Writer
  /\ thr[t].pc = "idle"
  /\ thr' = [thr EXCEPT ![t] = Goroutine("lookup", "rlock", id, NoPath, id, "idle", 0)]
  /\ UNCHANGED << rw, sessionPaths, fs, edits >> /\ UNCHANGED beyondLock

\* The writer calls BranchSession(id), which starts with GetSessionFile(id).
StartBranch(id) ==
  /\ thr[Writer].pc = "idle"
  /\ edits < MaxEdits
  /\ thr' = [thr EXCEPT ![Writer] = Goroutine("branch", "rlock", id, NoPath, id, "copy", 0)]
  /\ UNCHANGED << rw, sessionPaths, fs, edits >> /\ UNCHANGED beyondLock

\* The writer calls ListSessions().
StartList ==
  /\ thr[Writer].pc = "idle"
  /\ thr' = [thr EXCEPT ![Writer] = Goroutine("list", "walk", EmptyStr, NoPath, EmptyStr, "walk", 1)]
  /\ UNCHANGED << rw, sessionPaths, fs, edits >> /\ UNCHANGED beyondLock

\* a.pathsMu.RLock()
RLock(t) ==
  /\ thr[t].pc = "rlock"
  /\ CanRLock(rw)
  /\ rw' = [rw EXCEPT !.readers = @ + 1]
  /\ thr' = [thr EXCEPT ![t].pc = "read"]
  /\ UNCHANGED << sessionPaths, fs, edits >> /\ UNCHANGED beyondLock

\* path, ok := a.sessionPaths[id]
ReadMap(t) ==
  /\ thr[t].pc = "read"
  /\ thr' = [thr EXCEPT ![t].pc = "runlock",
                        ![t].path = IF thr[t].id \in DOMAIN sessionPaths
                                    THEN sessionPaths[thr[t].id] ELSE NoPath]
  /\ UNCHANGED << rw, sessionPaths, fs, edits >> /\ UNCHANGED beyondLock

\* a.pathsMu.RUnlock(): on a hit GetSessionFile returns, on a miss it walks.
RUnlock(t) ==
  /\ thr[t].pc = "runlock"
  /\ rw' = [rw EXCEPT !.readers = @ - 1]
  /\ thr' = [thr EXCEPT ![t] =
               IF thr[t].path = NoPath THEN [@ EXCEPT !.pc = "search"]
               ELSE IF thr[t].op = "branch" THEN [@ EXCEPT !.pc = "copy"]
               ELSE Idle]
  /\ UNCHANGED << sessionPaths, fs, edits >> /\ UNCHANGED beyondLock

\* The walk of GetSessionFile up to the first match.
Search(t) ==
  /\ thr[t].pc = "search"
  /\ thr' = [thr EXCEPT ![t] =
               IF GetSessionFile(thr[t].id, << >>, fs, dataDirOK).path = NoPath
               THEN Idle
               ELSE [@ EXCEPT !.pc = "lock",
                              !.path = GetSessionFile(thr[t].id, << >>, fs, dataDirOK).path]]
  /\ UNCHANGED << rw, sessionPaths, fs, edits >> /\ UNCHANGED beyondLock

\* The index of the first file that exists from the i-th of the walk on.
NextFile(i) ==
  IF \E j \in i..Len(WalkOrder) : fs[WalkOrder[j]].exists
  THEN CHOOSE j \in i..Len(WalkOrder) :
         /\ fs[WalkOrder[j]].exists
         /\ \A k \in i..(j - 1) : ~ fs[WalkOrder[k]].exists
  ELSE 0

\* The walk of ListSessions up to the next session file.
ListStep ==
  /\ thr[Writer].pc = "walk"
  /\ thr' = [thr EXCEPT ![Writer] =
               IF NextFile(thr[Writer].i) = 0 THEN Idle
               ELSE [@ EXCEPT !.pc = "lock",
                              !.key = SessionIdOf(WalkOrder[NextFile(thr[Writer].i)]),
                              !.path = WalkOrder[NextFile(thr[Writer].i)],
                              !.i = NextFile(thr[Writer].i) + 1]]
  /\ UNCHANGED << rw, sessionPaths, fs, edits >> /\ UNCHANGED beyondLock

\* BranchSession between GetSessionFile and the store of the new path.
Copy ==
  /\ thr[Writer].pc = "copy"
  /\ FreshIds(sessionPaths, fs) # << >>
  /\ fs' = BranchCopy(thr[Writer].id, FreshIds(sessionPaths, fs)[1], thr[Writer].path,
                      sessionPaths, fs, now).fs
  /\ thr' = [thr EXCEPT ![Writer].pc = "lock",
                        ![Writer].key = FreshIds(sessionPaths, fs)[1],
                        ![Writer].path = Sibling(thr[Writer].path, FreshIds(sessionPaths, fs)[1]),
                        ![Writer].next = "idle"]
  /\ edits' = edits + 1
  /\ UNCHANGED << rw, sessionPaths >> /\ UNCHANGED beyondLock

\* a.pathsMu.Lock()
Lock(t) ==
  /\ thr[t].pc = "lock"
  /\ CanLock(rw)
  /\ rw' = [rw EXCEPT !.writer = TRUE]
  /\ thr' = [thr EXCEPT ![t].pc = "write"]
  /\ UNCHANGED << sessionPaths, fs, edits >> /\ UNCHANGED beyondLock

\* a.sessionPaths[key] = path
WriteMap(t) ==
  /\ thr[t].pc = "write"
  /\ sessionPaths' = PutPath(sessionPaths, thr[t].key, thr[t].path)
  /\ thr' = [thr EXCEPT ![t].pc = "unlock"]
  /\ UNCHANGED << rw, fs, edits >> /\ UNCHANGED beyondLock

\* a.pathsMu.Unlock()
Unlock(t) ==
  /\ thr[t].pc = "unlock"
  /\ rw' = [rw EXCEPT !.writer = FALSE]
  /\ thr' = [thr EXCEPT ![t] = IF thr[t].next = "idle" THEN Idle ELSE [@ EXCEPT !.pc = thr[t].next]]
  /\ UNCHANGED << sessionPaths, fs, edits >> /\ UNCHANGED beyondLock

NextLock ==
  \/ \E t \in Threads, id \in LockIds : StartLookup(t, id)
  \/ \E id \in LockIds : StartBranch(id)
  \/ StartList
  \/ \E t \in Threads : RLock(t)
  \/ \E t \in Threads : ReadMap(t)
  \/ \E t \in Threads : RUnlock(t)
  \/ \E t \in Threads : Search(t)
  \/ ListStep
  \/ Copy
  \/ \E t \in Threads : Lock(t)
  \/ \E t \in Threads : WriteMap(t)
  \/ \E t \in Threads : Unlock(t)

SpecLock == InitLock /\ [][NextLock]_vars

\* ------------------------------------------------- reading one session
\* One session, kept as a log file a.jsonl or as a tree of message files,
\* and the calls that read it.
MaxLines == 3

LineKinds ==
  {Rec("user", "user", << "hi" >>),
   Rec("user", "user", << SP, "Warmup", NL >>),
   [Rec("user", "user", << "meta" >>) EXCEPT !.IsMeta = TRUE],
   BlocksRec("assistant", "assistant",
             << [type |-> "text", text |-> << "o" >>],
                [type |-> "tool_use", text |-> << "t" >>],
                [type |-> "text", text |-> << "k" >>] >>),
   SummaryRec(<< "title" >>),
   BadLine,
   LongLine(Rec("assistant", "assistant", << "big" >>))}

LogFiles ==
  {NoFile} \cup
  {File(0, r, ls) : r \in BOOLEAN, ls \in UNION {[1..n -> LineKinds] : n \in 0..MaxLines}}

MsgNames == << "m1", "m2", "m3" >>

CreatedTimes == {500, 1000, 2000}

\* What may stand in the message directory under a name: nothing, a file
\* that does not decode, or a message.
MsgStates(name) ==
  {MsgFile(name, FALSE, 0, "")} \cup
  {MsgFile(name, TRUE, c, "user") : c \in CreatedTimes}

MsgDirs ==
  {SelectSeq(d, LAMBDA f : f.name # "") :
     d \in {e \in [1..Len(MsgNames) -> UNION {MsgStates(MsgNames[i]) : i \in 1..Len(MsgNames)}
                                       \cup {MsgFile("", FALSE, 0, "")}] :
              \A i \in 1..Len(MsgNames) : e[i].name \in {"", MsgNames[i]}}}

ParsedId == << "a" >>

InitParse ==
  /\ \E f \in LogFiles, d \in MsgDirs :
       /\ f = NoFile \/ d = << >>
       /\ fs = [p \in Paths |-> IF p = PathA THEN f ELSE NoFile]
       /\ msgDir = d
  /\ front = NoFront
  /\ wr = << >>
  /\ now = 1
  /\ dataDirOK = TRUE
  /\ sessionPaths = << >>
  /\ call = NoCall
  /\ cacheFile = NoCache
  /\ pc = "idle"
  /\ existing = << >>
  /\ build = NoBuild
  /\ alone = << >>
  /\ parsedBefore = {}
  /\ parsedAgain = {}
  /\ unchanged = FALSE
  /\ secondRun = FALSE
  /\ settled = FALSE
  /\ ownCache = FALSE
  /\ edits = 0
  /\ shown = NoShown
  /\ thr = << >>
  /\ rw = Unlocked

\* What the reading calls leave alone.
beyondParse ==
  << now, fs, dataDirOK, cacheFile, pc, existing, build, alone, parsedBefore, parsedAgain,
     unchanged, secondRun, settled, ownCache, edits, shown, thr, rw, msgDir, front, wr >>

\* adapter.parseFile(path) on the session's file.
ParseCall ==
  /\ fs[PathA].exists
  /\ call' = [op |-> "parse", id |-> ParsedId, newID |-> EmptyStr,
              err |-> parseFile(fs[PathA]).err, path |-> PathA,
              out |-> parseFile(fs[PathA]).records]
  /\ UNCHANGED sessionPaths /\ UNCHANGED beyondParse

\* adapter.ExtractMeta(id)
ExtractCall ==
  /\ call' = [op |-> "extract", id |-> ParsedId, newID |-> EmptyStr,
              err |-> ExtractMeta(ParsedId, sessionPaths, fs, dataDirOK).err,
              path |-> GetSessionFile(ParsedId, sessionPaths, fs, dataDirOK).path,
              out |-> << ExtractMeta(ParsedId, sessionPaths, fs, dataDirOK).meta >>]
  /\ sessionPaths' = GetSessionFile(ParsedId, sessionPaths, fs, dataDirOK).sessionPaths
  /\ UNCHANGED beyondParse

\* adapter.ExportMessages(id) of the log format.
ExportCall ==
  /\ call' = [op |-> "export", id |-> ParsedId, newID |-> EmptyStr,
              err |-> ExportMessages(ParsedId, sessionPaths, fs, dataDirOK).err,
              path |-> GetSessionFile(ParsedId, sessionPaths, fs, dataDirOK).path,
              out |-> ExportMessages(ParsedId, sessionPaths, fs, dataDirOK).messages]
  /\ sessionPaths' = GetSessionFile(ParsedId, sessionPaths, fs, dataDirOK).sessionPaths
  /\ UNCHANGED beyondParse

\* adapter.ExportMessages(id) of the tree format.
ExportTreeCall ==
  /\ \E r \in ExportTree(msgDir) :
       call' = [op |-> "exportTree", id |-> ParsedId, newID |-> EmptyStr, err |-> r.err,
                path |-> NoPath, out |-> r.messages]
  /\ UNCHANGED sessionPaths /\ UNCHANGED beyondParse

NextParse ==
  \/ ParseCall
  \/ ExtractCall
  \/ ExportCall
  \/ ExportTreeCall

SpecParse == InitParse /\ [][NextParse]_vars

\* ------------------------------------------------- the cache file alone
\* cache.Write of an entry list over a cache file, and cache.Read of the
\* file, for entry lists and file contents of every shape.
MaxStr == 3

MaxRows == 3

StrChars == {TAB, NL, CR, SP, "x"}

Strs == UNION {[1..n -> StrChars] : n \in 0..MaxStr}

\* Entries that differ in id, time and parent.
PlainEntries ==
  {Entry(id, d, << "p" >>, << "s" >>, par) :
     id \in {<< "a" >>, << "a", SLASH, "g" >>},
     d \in {ZeroTime, 0, 1, MaxTime},
     par \in {EmptyStr, << "a" >>, << "z" >>}}

\* Entries that differ in the text of the summary or of the project.
TextEntries ==
  {Entry(<< "a" >>, 0, << "p" >>, t, EmptyStr) : t \in Strs}
  \cup {Entry(<< "a" >>, 0, t, << "s" >>, EmptyStr) : t \in Strs}

\* The entries lists of several entries are made of.
ListEntries ==
  {Entry(<< "a" >>, 1, << "p" >>, << "x", TAB, "x" >>, EmptyStr),
   Entry(<< "a", SLASH, "g" >>, MaxTime, << "p" >>, << "s" >>, << "a" >>),
   Entry(<< "b" >>, 0, << "x", CR >>, << NL >>, << "z" >>)}

WriteLists ==
  {<< e >> : e \in PlainEntries \cup TextEntries}
  \cup UNION {[1..n -> ListEntries] : n \in 0..MaxRows}

\* A row without its newline.
Row(cols) ==
  IF cols = << >> THEN << >>
  ELSE LET tabbed == [i \in 1..Len(cols) |-> IF i = 1 THEN cols[i] ELSE << TAB >> \o cols[i]]
       IN  Concat(tabbed)

\* The columns Write gives an entry.
Columns(e) ==
  << e.SessionID, << Format1504(e.Date) >>, escapeTSV(e.Project), escapeTSV(e.Summary),
     << FormatInt(Unix(e.Date)) >>,
     IF e.ParentSID = EmptyStr THEN << DASH >> ELSE e.ParentSID,
     << Format20060102(e.Date) >> >>

\* Rows with fewer than four columns.
ShortRows == {Row(<< >>), Row(<< << "bad", SP, "line" >> >>), Row(<< << "a" >>, << "b" >>, << "c" >> >>)}

\* Columns a later version may add.
ExtraColumns == {<< << "x" >> >>, << EmptyStr, << "y", SP >> >>}

\* The rows a cache file may hold: rows of Write, the same with columns
\* added or with their last columns missing, and short rows.
FileRows ==
  {Row(Columns(e)) : e \in ListEntries}
  \cup {Row(Columns(e) \o x) : e \in {Entry(<< "a", SLASH, "g" >>, MaxTime, << "p" >>, << "s" >>, << "a" >>)},
                               x \in ExtraColumns}
  \cup {Row(SubSeq(Columns(e), 1, n)) :
          e \in {Entry(<< "a", SLASH, "g" >>, MaxTime, << "p" >>, << "s" >>, << "a" >>)}, n \in 4..6}
  \cup ShortRows

\* The content of a file of rows, each ended by a newline.
FileOf(rows) == Concat([i \in 1..Len(rows) |-> rows[i] \o << NL >>])

CacheFiles ==
  {NoCache} \cup
  {[exists |-> TRUE, mtime |-> 0, data |-> FileOf(rows)] :
     rows \in UNION {[1..n -> FileRows] : n \in 0..MaxRows}}

\* What a cache file may hold before a write.
PriorFiles ==
  {NoCache,
   [exists |-> TRUE, mtime |-> 0, data |-> FileOf(<< Row(<< << "bad", SP, "line" >> >>) >>)],
   [exists |-> TRUE, mtime |-> 0,
    data |-> FileOf([i \in 1..(MaxRows + 1) |->
                      Row(Columns(Entry(<< "o" >>, 0, << "p" >>, << "old" >>, << "z" >>)))])]}

InitCache ==
  /\ \E es \in WriteLists, f \in CacheFiles :
       /\ es = << >> \/ f \in PriorFiles
       /\ build = [NoBuild EXCEPT !.entries = es]
       /\ cacheFile = f
  /\ now = 1
  /\ fs = [p \in Paths |-> NoFile]
  /\ dataDirOK = TRUE
  /\ sessionPaths = << >>
  /\ call = NoCall
  /\ pc = "idle"
  /\ existing = << >>
  /\ alone = << >>
  /\ parsedBefore = {}
  /\ parsedAgain = {}
  /\ unchanged = FALSE
  /\ secondRun = FALSE
  /\ settled = FALSE
  /\ ownCache = FALSE
  /\ edits = 0
  /\ shown = NoShown
  /\ thr = << >>
  /\ rw = Unlocked
  /\ msgDir = << >>
  /\ front = NoFront
  /\ wr = << >>

\* What the cache calls leave alone.
beyondCache ==
  << now, fs, dataDirOK, sessionPaths, pc, build, alone, parsedBefore, parsedAgain,
     unchanged, secondRun, settled, ownCache, edits, shown, thr, rw, msgDir, front, wr >>

\* cache.Write(path, build.entries)
WriteCall ==
  /\ call.op # "write"
  /\ cacheFile' = [exists |-> TRUE, mtime |-> now, data |-> Write(build.entries)]
  /\ call' = [NoCall EXCEPT !.op = "write"]
  /\ UNCHANGED existing /\ UNCHANGED beyondCache

\* cache.Read(path)
ReadCall ==
  /\ call.op # "read"
  /\ existing' = IF cacheFile.exists THEN Read(cacheFile.data) ELSE << >>
  /\ call' = [NoCall EXCEPT !.op = "read", !.err = IF cacheFile.exists THEN "nil" ELSE "open"]
  /\ UNCHANGED cacheFile /\ UNCHANGED beyondCache

NextCache ==
  \/ WriteCall
  \/ ReadCall

SpecCache == InitCache /\ [][NextCache]_vars

\* ------------------------------------------------------------ properties
\* The build of the refresh in progress has returned.
BuildDone == pc = "built"

\* The ids listSessions returned to that build, in order.
Listed == [i \in 1..Len(build.steps) |-> build.steps[i].id]

\* The loop reached its decision for this round: the path resolved and the
\* file could be stat'ed.
Statable(st) == st.branch \notin {"unresolved", "statfail"}

\* ExtractMeta was called in this round.
MetaCalled(st) == st.branch \in {"parsed", "skipped"}

InOutput(e) == \E j \in 1..Len(build.entries) : build.entries[j] = e

RECURSIVE IsSubsequence(_, _)
IsSubsequence(s, t) ==
  IF s = << >> THEN TRUE
  ELSE IF t = << >> THEN FALSE
  ELSE IF Head(s) = Head(t) THEN IsSubsequence(Tail(s), Tail(t))
  ELSE IsSubsequence(s, Tail(t))

\* C1: in BuildIncremental, for every listed session whose path resolves and
\* can be stat'ed: if the cache mtime recorded is not zero, the file's mtime
\* is strictly before it and the previous entries hold an entry with this id,
\* then the output contains a previous entry of this id with all its fields
\* unchanged, and ExtractMeta is not called for the session.
C1_ReuseVerbatim ==
  BuildDone =>
    \A i \in 1..Len(build.steps) :
      LET st == build.steps[i] IN
        ( /\ Statable(st)
          /\ ~ IsZero(build.cacheMtime)
          /\ Before(st.mtime, build.cacheMtime)
          /\ \E k \in 1..Len(existing) : existing[k].SessionID = st.id )
        => /\ \E k \in 1..Len(existing) :
                existing[k].SessionID = st.id /\ InOutput(existing[k])
           /\ ~ MetaCalled(st)

\* A build reused a previous entry whose summary the file no longer has.
C1_Witness ==
  /\ BuildDone
  /\ \E i \in 1..Len(build.steps) :
       /\ build.steps[i].branch = "reused"
       /\ build.steps[i].id = << "a" >>
       /\ InOutput(Entry(<< "a" >>, 0, << "code", SLASH, "x" >>, << "was", SP, "a" >>, EmptyStr))
       /\ fs[PathA].exists /\ fs[PathA].lines = HelloLines

\* C2: a session whose file's mtime is strictly after the cache mtime the
\* build recorded is never given the previous entry: ExtractMeta is called
\* for it, and the entry the output has for it is the one made of the
\* metadata ExtractMeta returns for the file as it is.
C2_Freshness ==
  [][ (pc = "read" /\ pc' = "built") =>
        \A i \in 1..Len(build'.steps) :
          LET st == build'.steps[i] IN
            ( /\ cacheFile.exists
              /\ st.path # NoPath
              /\ fs'[st.path].exists
              /\ After(fs[st.path].mtime, cacheFile.mtime) )
            => /\ st.branch \in {"parsed", "skipped"}
               /\ LET m == ExtractMeta(st.id, sessionPaths', fs', dataDirOK)
                  IN  /\ st.appended = (m.err = "nil")
                      /\ st.appended =>
                           /\ st.entry = MetaEntry(m.meta)
                           /\ \E j \in 1..Len(build'.entries) : build'.entries[j] = st.entry
    ]_vars

\* A build parsed a file newer than the cache although the cache has a row
\* for it, and the fresh entry is not that row.
C2_Witness ==
  /\ BuildDone
  /\ ~ IsZero(build.cacheMtime)
  /\ \E i \in 1..Len(build.steps) :
       /\ build.steps[i].branch = "parsed"
       /\ After(build.steps[i].mtime, build.cacheMtime)
       /\ HasExisting(existing, build.steps[i].id)
       /\ build.steps[i].entry # ExistingEntry(existing, build.steps[i].id)
       /\ InOutput(build.steps[i].entry)

\* C3 as stated: a listed session is parsed exactly when its mtime is after
\* the cache mtime or the previous entries have no entry for it.
C3_AsStated ==
  BuildDone =>
    \A i \in 1..Len(build.steps) :
      LET st == build.steps[i] IN
        MetaCalled(st) <=>
          \/ (Statable(st) /\ After(st.mtime, build.cacheMtime))
          \/ ~ HasExisting(existing, st.id)

\* C3: a listed session whose path resolves and whose file can be stat'ed is
\* parsed exactly when there is no cache, or its mtime is not strictly
\* before the cache mtime, or the previous entries have no entry for it.
C3_ParsedIff ==
  BuildDone =>
    \A i \in 1..Len(build.steps) :
      LET st == build.steps[i] IN
        Statable(st) =>
          ( MetaCalled(st) <=>
              \/ IsZero(build.cacheMtime)
              \/ ~ Before(st.mtime, build.cacheMtime)
              \/ ~ HasExisting(existing, st.id) )

\* A build parsed a file whose mtime is the cache's, with a row for it.
C3_Witness ==
  /\ BuildDone
  /\ \E i \in 1..Len(build.steps) :
       /\ MetaCalled(build.steps[i])
       /\ build.steps[i].mtime = build.cacheMtime
       /\ HasExisting(existing, build.steps[i].id)

\* C4 as stated: no refresh parses a file that an earlier refresh parsed and
\* that nobody has written since.
C4_AsStated == BuildDone => parsedAgain = {}

\* C4: a refresh does not parse again a file that an earlier refresh parsed
\* and that nobody has written since, when the cache the refresh reads has
\* an entry for the session and the file's mtime is strictly before the
\* mtime of that cache file.
C4_AtMostOnce ==
  [][ (pc = "read" /\ pc' = "built") =>
        \A p \in parsedBefore :
          ( /\ cacheFile.exists
            /\ fs[p].exists
            /\ Before(fs[p].mtime, cacheFile.mtime)
            /\ HasExisting(existing, SessionIdOf(p)) )
          => p \notin ParsedPaths(build'.steps)
    ]_vars

\* A refresh reused the entry an earlier refresh made by parsing the file.
C4_Witness ==
  /\ BuildDone
  /\ \E i \in 1..Len(build.steps) :
       /\ build.steps[i].branch = "reused"
       /\ build.steps[i].path \in parsedBefore

C6_Isolation ==
  BuildDone =>
    /\ \A i \in 1..Len(build.steps) :
         LET st == build.steps[i] IN
           (~ Statable(st) \/ st.meta # "nil") =>
             /\ ~ st.appended
             /\ \A j \in 1..Len(build.entries) : build.entries[j].SessionID # st.id
    /\ build.entries = alone

\* A build lost one session to a failed stat and one to an ExtractMeta
\* error, and a session listed after them got its entry.
C6_Witness ==
  /\ BuildDone
  /\ \E i \in 1..Len(build.steps) : build.steps[i].branch = "statfail"
  /\ \E i \in 1..Len(build.steps) :
       /\ build.steps[i].branch = "skipped"
       /\ \E j \in (i + 1)..Len(build.steps) : build.steps[j].appended
  /\ build.entries # << >>
  /\ build.entries = alone

\* C7: BuildIncremental returns its entry list and no error, whatever the
\* listing, the path resolution, the stat and the extraction run into.
C7_NeverFatal == BuildDone => build.err = "nil"

\* A build returned although the walk of the data directory failed.
C7_Witness == BuildDone /\ ~ dataDirOK /\ build.err = "nil" /\ edits = 1 /\ now = 1

\* C8: the ids of the output, in order, are a subsequence of the listing.
C8_OrderPreserved ==
  BuildDone =>
    IsSubsequence([j \in 1..Len(build.entries) |-> build.entries[j].SessionID], Listed)

\* A build of three listed sessions dropped the one in the middle.
C8_Witness ==
  /\ BuildDone
  /\ Len(build.steps) = 3
  /\ ~ build.steps[2].appended
  /\ Len(build.entries) = 2
  /\ build.entries[1].SessionID = build.steps[1].id
  /\ build.entries[2].SessionID = build.steps[3].id

\* C9: every entry of the output has the id of a listed session; an entry
\* the previous entries have for a session that is not listed is dropped.
C9_NoCarryOver ==
  BuildDone =>
    /\ \A j \in 1..Len(build.entries) :
         \E i \in 1..Len(Listed) : Listed[i] = build.entries[j].SessionID
    /\ \A k \in 1..Len(existing) :
         (\A i \in 1..Len(Listed) : Listed[i] # existing[k].SessionID) =>
           \A j \in 1..Len(build.entries) :
             build.entries[j].SessionID # existing[k].SessionID

\* A build with entries dropped the previous entry of a session that is gone.
C9_Witness ==
  /\ BuildDone
  /\ build.entries # << >>
  /\ HasExisting(existing, << "gone" >>)
  /\ \E i \in 1..Len(build.steps) : build.steps[i].branch = "reused"
  /\ \A j \in 1..Len(build.entries) : build.entries[j].SessionID # << "gone" >>

\* C10 as stated: without a cache, ExtractMeta is called for every listed
\* session.
C10_AsStated ==
  BuildDone =>
    (IsZero(build.cacheMtime) =>
       \A i \in 1..Len(build.steps) : MetaCalled(build.steps[i]))

\* C10: without a cache, ExtractMeta is called for every listed session
\* whose path resolves and whose file can be stat'ed, also when the
\* previous entries have an entry for its id.
C10_ColdStart ==
  BuildDone =>
    (IsZero(build.cacheMtime) =>
       \A i \in 1..Len(build.steps) :
         Statable(build.steps[i]) => MetaCalled(build.steps[i]))

\* A build without a cache file parsed a session the previous entries have.
C10_Witness ==
  /\ BuildDone
  /\ IsZero(build.cacheMtime)
  /\ \E i \in 1..Len(build.steps) :
       /\ MetaCalled(build.steps[i])
       /\ HasExisting(existing, build.steps[i].id)

\* C11 as stated: whenever the cache file exists after a step, reading it
\* gives the complete entry list it held before the step or the complete
\* entry list of the build being written, never part of a list.
C11_AsStated ==
  [][ cacheFile'.exists =>
        Read(cacheFile'.data) \in {Read(cacheFile.data), Read(Write(build.entries))}
    ]_vars

\* The parent ids a session file records: the sessionId of its agent lines
\* and the parentSession of its branch markers.
RecordedParents(f) ==
  {f.lines[i].SessionID : i \in {j \in 1..Len(f.lines) :
      f.lines[j].ok /\ f.lines[j].AgentID # EmptyStr}}
  \cup {f.lines[i].ParentSession : i \in {j \in 1..Len(f.lines) :
      f.lines[j].ok /\ f.lines[j].Type = "branch"}}

\* C17 as stated: in the index of every build, each entry's parent id is
\* empty or the session id of an entry of the same index.
C17_AsStated ==
  BuildDone =>
    \A j \in 1..Len(build.entries) :
      \/ build.entries[j].ParentSID = EmptyStr
      \/ \E k \in 1..Len(build.entries) :
           build.entries[k].SessionID = build.entries[j].ParentSID

\* C17: in the index of every build, each entry's parent id is empty, or
\* the parent id the session's file records (for an entry parsed afresh),
\* or the parent id of the previous row of the session (for a reused one).
C17_ParentRecorded ==
  [][ (pc = "read" /\ pc' = "built") =>
        \A i \in 1..Len(build'.steps) :
          LET st == build'.steps[i] IN
            st.appended =>
              \/ st.entry.ParentSID = EmptyStr
              \/ /\ st.branch = "parsed"
                 /\ st.entry.ParentSID \in RecordedParents(fs'[st.path])
              \/ /\ st.branch = "reused"
                 /\ \E k \in 1..Len(existing) :
                      /\ existing[k].SessionID = st.id
                      /\ existing[k].ParentSID = st.entry.ParentSID
    ]_vars

\* A build parsed an agent session whose parent session has no entry in
\* the index although its file is listed.
C17_Witness ==
  /\ BuildDone
  /\ \E i \in 1..Len(build.steps) :
       /\ build.steps[i].branch = "parsed"
       /\ build.steps[i].entry.ParentSID = << "a" >>
       /\ InOutput(build.steps[i].entry)
  /\ \E i \in 1..Len(build.steps) :
       build.steps[i].id = << "a" >> /\ build.steps[i].meta = "ErrWarmupSession"
  /\ \A k \in 1..Len(build.entries) : build.entries[k].SessionID # << "a" >>

\* C18 as stated: in the index of every build, an entry whose parent is in
\* the index too is dated no earlier than its parent.
C18_AsStated ==
  BuildDone =>
    \A j \in 1..Len(build.entries) : \A k \in 1..Len(build.entries) :
      build.entries[j].ParentSID = build.entries[k].SessionID =>
        ~ After(build.entries[k].Date, build.entries[j].Date)

\* The text of the first user message of a file, or none.
FirstUserText(f) ==
  LET users == SelectSeq(f.lines, LAMBDA r : r.ok /\ r.Type = "user" /\ r.Role = "user")
  IN  IF users = << >> THEN [some |-> FALSE, text |-> EmptyStr]
      ELSE [some |-> TRUE,
            text |-> IF users[1].Content.isString THEN users[1].Content.text
                     ELSE LET texts == SelectSeq(users[1].Content.blocks,
                                                 LAMBDA b : b.type = "text")
                          IN  JoinSp([i \in 1..Len(texts) |-> texts[i].text])]

\* C20: when a build calls ExtractMeta for a session whose file can be read
\* and whose first user message is exactly "Warmup", ExtractMeta returns
\* ErrWarmupSession and the index has no entry for the session.
C20_WarmupExcluded ==
  [][ (pc = "read" /\ pc' = "built") =>
        \A i \in 1..Len(build'.steps) :
          LET st == build'.steps[i] IN
            ( /\ MetaCalled(st)
              /\ fs'[st.path].exists /\ fs'[st.path].readable
              /\ FirstUserText(fs'[st.path]).some
              /\ FirstUserText(fs'[st.path]).text = << "Warmup" >> )
            => /\ st.meta = "ErrWarmupSession"
               /\ ExtractMeta(st.id, sessionPaths', fs', dataDirOK).err = "ErrWarmupSession"
               /\ \A j \in 1..Len(build'.entries) : build'.entries[j].SessionID # st.id
    ]_vars

\* A build met the agent session whose only user message is the marker,
\* left it out, and indexed another session.
C20_Witness ==
  /\ BuildDone
  /\ fs[PathG].exists /\ fs[PathG].lines = AgentWarmupLines
  /\ \E i \in 1..Len(build.steps) :
       /\ build.steps[i].path = PathG
       /\ build.steps[i].meta = "ErrWarmupSession"
  /\ build.entries # << >>


\* ------------------------------------------------ claims on the adapter
\* A BranchSession call has just returned a new id without error.
BranchReturned == call.op = "branch" /\ call.err = "nil"

C14_AsStated ==
  BranchReturned =>
    /\ ExtractMeta(call.newID, sessionPaths, fs, dataDirOK).err = "nil"
    /\ ExtractMeta(call.newID, sessionPaths, fs, dataDirOK).meta.ParentSID = call.id

\* C19: GetSessionFile(parent/child) returns, when it returns a file, the
\* file child.jsonl nested under parent, whatever the map holds and whatever
\* was looked up before.
C19_AsStated ==
  (call.op = "lookup" /\ Contains(call.id, SLASH) /\ call.path # NoPath) =>
    /\ call.path.parent = SplitN2(call.id)[1]
    /\ call.path.name = SplitN2(call.id)[2]


\* ------------------------------------------------- claims on the views
\* How often the entry e is listed by the view on display.
TimesListed(e) ==
  IF shown.view = "picker"
  THEN Cardinality({i \in 1..Len(shown.lines) : shown.lines[i][1] = e.SessionID})
  ELSE Cardinality({i \in 1..Len(shown.items) :
                      shown.items[i].kind = "session" /\ shown.items[i].entry = e})

\* The entry names a parent that is not in the list.
IsOrphan(e) ==
  /\ ~ IsRoot(e)
  /\ \A i \in 1..Len(shown.entries) : shown.entries[i].SessionID # e.ParentSID

\* C15: every entry whose parent id is not in the entry list is listed by
\* each view built from the list, the picker's rows and the interface's list.
C15_AsStated ==
  shown.view # "none" =>
    \A i \in 1..Len(shown.entries) :
      IsOrphan(shown.entries[i]) => TimesListed(shown.entries[i]) >= 1

\* C16: for an entry list whose parent ids are all in the list, whatever the
\* shape of the lineage (a child that is itself a parent, an entry that names
\* itself, a cycle, a parent dated after its child), every entry is listed
\* exactly once by each view built from the list.
C16_AsStated ==
  (shown.view # "none" /\ \A i \in 1..Len(shown.entries) : ~ IsOrphan(shown.entries[i])) =>
    \A i \in 1..Len(shown.entries) : TimesListed(shown.entries[i]) = 1


\* ------------------------------------------- claims on the goroutines
\* Goroutine t is reading the map.
Reading(t) == thr[t].pc = "read"

\* Goroutine t is storing into the map.
Writing(t) == thr[t].pc = "write"

\* C12: the id-to-path map is free of data races under concurrent lookups
\* and one writer: a goroutine reads the map only while it holds the read
\* lock and no writer holds the lock, a goroutine stores into the map only
\* while it alone holds the write lock, and no read or store of one goroutine
\* overlaps a store of another.
C12_NoDataRace ==
  /\ \A t \in Threads : Reading(t) => (rw.readers >= 1 /\ ~ rw.writer)
  /\ \A t \in Threads : Writing(t) => (rw.writer /\ rw.readers = 0)
  /\ \A t, u \in Threads : (t # u /\ Writing(t)) => ~ (Reading(u) \/ Writing(u))

\* The writer is storing a path while one lookup waits for the read lock
\* and another, after a miss, waits for the write lock.
C12_Witness ==
  /\ Writing(Writer)
  /\ \E t, u \in Threads :
       /\ thr[t].op = "lookup" /\ thr[t].pc = "rlock"
       /\ thr[u].op = "lookup" /\ thr[u].pc = "lock"

\* ------------------------------------------- claims on reading a session
\* The records of the file that decode and fit the scanner's buffer.
GoodRecords(f) == SelectSeq(f.lines, LAMBDA r : r.ok /\ ~ r.long)

\* The file holds at least one user or assistant record.
HasMessageRecord(f) ==
  \E i \in 1..Len(GoodRecords(f)) : GoodRecords(f)[i].Type \in {"user", "assistant"}

\* The first user message of the file is the warmup marker.
IsWarmupFile(f) ==
  LET users == SelectSeq(GoodRecords(f), LAMBDA r : r.Type = "user" /\ r.Role = "user")
  IN  users # << >> /\ TrimSpace(extractTextContent(users[1].Content)) = << "Warmup" >>

Sentinels == {"ErrWarmupSession", "ErrNoMessages"}

\* ExtractMeta has just returned for the session's file, which exists.
Extracted == call.op = "extract" /\ fs[PathA].exists

\* C21: ExtractMeta returns ErrNoMessages for a session with no user or
\* assistant record, and does not return it for a session that has such a
\* record and is not a warmup session.
C21_AsStated ==
  Extracted =>
    /\ ~ HasMessageRecord(fs[PathA]) => call.err = "ErrNoMessages"
    /\ (HasMessageRecord(fs[PathA]) /\ ~ IsWarmupFile(fs[PathA])) => call.err # "ErrNoMessages"

\* C22: ExtractMeta returns a failure other than the two skip sentinels when
\* the id is unresolved or the file cannot be read, and returns a sentinel
\* only for a file that was parsed.
C22_AsStated ==
  call.op = "extract" =>
    /\ ~ fs[PathA].exists => call.err \notin Sentinels \cup {"nil"}
    /\ (fs[PathA].exists /\ ~ fs[PathA].readable) => call.err \notin Sentinels \cup {"nil"}
    /\ call.err \in Sentinels => (fs[PathA].exists /\ parseFile(fs[PathA]).err = "nil")

\* C23: parseFile of a file that can be opened returns every well-formed
\* record of the file, in order, whatever lines lie between them.
C23_AsStated ==
  (call.op = "parse" /\ fs[PathA].readable) => call.out = GoodRecords(fs[PathA])

\* C24: the messages ExportMessages returns are, for the log format, made of
\* records of the file in the order of the file, and, for the tree format,
\* the messages of the directory in the order of their creation times
\* whatever the order of their names.
C24_ExportOrdered ==
  /\ (call.op = "export" /\ call.err = "nil") =>
       IsSubsequence(call.out, [i \in 1..Len(GoodRecords(fs[PathA])) |->
                                  MessageOfRecord(GoodRecords(fs[PathA])[i])])
  /\ call.op = "exportTree" =>
       /\ \A i, j \in 1..Len(call.out) : i < j => call.out[i].Timestamp <= call.out[j].Timestamp
       /\ Len(call.out) = Len(loadMessages(msgDir))
       /\ \A k \in 1..Len(msgDir) :
            msgDir[k].ok => \E i \in 1..Len(call.out) :
                              /\ call.out[i].Content = msgDir[k].Text
                              /\ call.out[i].Timestamp = msgDir[k].Created \div 1000

\* A tree export of three messages whose names run against their creation
\* times.
C24_WitnessTree ==
  /\ call.op = "exportTree"
  /\ Len(msgDir) = 3
  /\ msgDir[1].ok /\ msgDir[2].ok /\ msgDir[3].ok
  /\ msgDir[1].Created > msgDir[2].Created
  /\ msgDir[2].Created > msgDir[3].Created
  /\ Len(call.out) = 3


\* ------------------------------------------- claims on the cache file
\* s with each tab, newline and carriage return replaced by one space.
Spaced(s) == [i \in 1..Len(s) |-> IF s[i] \in {TAB, NL, CR} THEN SP ELSE s[i]]

\* The entry a reader expects back for a written entry: the same id and
\* parent, the time cut to the second, the texts with spaces for separators.
ReadBack(e) ==
  Entry(e.SessionID, TimeUnix(Unix(e.Date)), Spaced(e.Project), Spaced(e.Summary), e.ParentSID)

\* A Read has just returned.
ReadReturned == call.op = "read"

\* C25: Read of a file in which a row of fewer than four columns lies
\* between two rows of Write succeeds and returns exactly the entries of the
\* two rows, in their order.
C25_MalformedRowSkipped ==
  ReadReturned =>
    \A e1 \in ListEntries, e2 \in ListEntries, bad \in ShortRows :
      cacheFile.data = FileOf(<< Row(Columns(e1)), bad, Row(Columns(e2)) >>) =>
        /\ call.err = "nil"
        /\ existing = << ReadBack(e1), ReadBack(e2) >>

C25_Witness ==
  /\ ReadReturned
  /\ cacheFile.data =
       FileOf(<< Row(Columns(Entry(<< "a" >>, 1, << "p" >>, << "x", TAB, "x" >>, EmptyStr))),
                 Row(<< << "bad", SP, "line" >> >>),
                 Row(Columns(Entry(<< "b" >>, 0, << "x", CR >>, << NL >>, << "z" >>))) >>)
  /\ Len(existing) = 2

\* The entry whose row stands in the files with columns added or missing.
Widened == Entry(<< "a", SLASH, "g" >>, MaxTime, << "p" >>, << "s" >>, << "a" >>)

\* C26: Read takes a row by its number of columns: a row of Write with
\* further columns after the seventh gives the entry of the row without
\* them, and a row of fewer than four columns is skipped while the read
\* goes on and succeeds.
C26_ColumnCount ==
  ReadReturned =>
    \A x \in ExtraColumns, short \in ShortRows :
      /\ cacheFile.data = FileOf(<< short, Row(Columns(Widened) \o x) >>) =>
           (call.err = "nil" /\ existing = << ReadBack(Widened) >>)
      /\ cacheFile.data = FileOf(<< Row(Columns(Widened) \o x), short, short >>) =>
           (call.err = "nil" /\ existing = << ReadBack(Widened) >>)
      /\ cacheFile.data = FileOf(<< Row(Columns(Widened) \o x) >>) =>
           existing = Read(FileOf(<< Row(SubSeq(Columns(Widened) \o x, 1, 7)) >>))

C26_Witness ==
  /\ ReadReturned
  /\ cacheFile.data = FileOf(<< Row(<< << "a" >>, << "b" >>, << "c" >> >>),
                               Row(Columns(Widened) \o << EmptyStr, << "y", SP >> >>) >>)
  /\ Len(existing) = 1

\* C27: Write followed by Read gives, for every summary and project, the
\* written string with each tab, newline and carriage return replaced by
\* one space; and escaping an escaped string changes nothing.
C27_EscapeRoundTrip ==
  [][ (call.op = "write" /\ call'.op = "read") =>
        /\ Len(existing') = Len(build.entries)
        /\ \A i \in 1..Len(build.entries) :
             /\ existing'[i].Summary = Spaced(build.entries[i].Summary)
             /\ existing'[i].Project = Spaced(build.entries[i].Project)
             /\ escapeTSV(escapeTSV(build.entries[i].Summary)) = escapeTSV(build.entries[i].Summary)
             /\ escapeTSV(escapeTSV(build.entries[i].Project)) = escapeTSV(build.entries[i].Project)
    ]_vars

\* A summary of a tab, a newline and a carriage return was written and read
\* back as three spaces.
C27_Witness ==
  /\ ReadReturned
  /\ cacheFile.exists /\ cacheFile.mtime = now
  /\ Len(build.entries) = 1
  /\ build.entries[1].Summary = << TAB, NL, CR >>
  /\ existing[1].Summary = << SP, SP, SP >>

\* C28: Write of an entry list over a cache file of any content, followed
\* by Read, returns as many entries in the same order, each with the
\* written id, the written parent id (an empty one stays empty) and the
\* written time to the second.
C28_WriteReadRoundTrip ==
  [][ (call.op = "write" /\ call'.op = "read") =>
        /\ call'.err = "nil"
        /\ Len(existing') = Len(build.entries)
        /\ \A i \in 1..Len(build.entries) :
             /\ existing'[i].SessionID = build.entries[i].SessionID
             /\ existing'[i].ParentSID = build.entries[i].ParentSID
             /\ Unix(existing'[i].Date) = Unix(build.entries[i].Date)
    ]_vars

\* A list of entries with and without parent was written and read back.
C28_Witness ==
  /\ ReadReturned
  /\ cacheFile.exists /\ cacheFile.mtime = now
  /\ Len(build.entries) = MaxRows
  /\ Len(existing) = MaxRows
  /\ existing[1].ParentSID = EmptyStr
  /\ existing[2].ParentSID = << "a" >>


\* ------------------------------------------------ claims on the listing
\* The file behind a listed id.
FileOfId(id) == fs[CHOOSE p \in Paths : fs[p].exists /\ SessionIdOf(p) = id]

\* C29: the ids ListSessions returns are those of the session files, newest
\* first: of two ids, the file behind the earlier one has a modification
\* time later than or equal to that of the file behind the later one.
C29_NewestFirst ==
  (call.op = "list" /\ call.err = "nil") =>
    /\ \A i \in 1..Len(call.out) :
         \E p \in Paths : fs[p].exists /\ SessionIdOf(p) = call.out[i]
    /\ \A p \in Paths :
         fs[p].exists => \E i \in 1..Len(call.out) : call.out[i] = SessionIdOf(p)
    /\ \A i, j \in 1..Len(call.out) :
         i < j => FileOfId(call.out[i]).mtime >= FileOfId(call.out[j]).mtime

\* A listing of old and new files in which a newer file comes later in the
\* walk than an older one.
C29_Witness ==
  /\ call.op = "list"
  /\ Len(call.out) >= 3
  /\ call.out[1] = << "b" >>
  /\ FileOfId(call.out[1]).mtime > FileOfId(call.out[Len(call.out)]).mtime


\* ------------------------------------------- refreshes of growing logs
\* What the file at p holds once the assistant has appended a summary
\* record to the log the session began with.
GrownContents(p) ==
  IF p = PathA THEN {[readable |-> TRUE, lines |-> TitledLines]}
  ELSE IF p = PathG THEN {[readable |-> TRUE, lines |-> AgentTitledLines]}
  ELSE {}

\* Sessions a and a/g have begun; there is no cache, or the one of Init.
InitStale ==
  /\ now = 1
  /\ fs = [p \in Paths |-> IF p = PathA THEN File(0, TRUE, HelloLines)
                           ELSE IF p = PathG THEN File(0, TRUE, AgentLines)
                           ELSE NoFile]
  /\ dataDirOK = TRUE
  /\ cacheFile \in {NoCache, [exists |-> TRUE, mtime |-> 1, data |-> Write(OldEntries)]}
  /\ sessionPaths = << >>
  /\ pc = "idle"
  /\ existing = << >>
  /\ build = NoBuild
  /\ alone = << >>
  /\ parsedBefore = {}
  /\ parsedAgain = {}
  /\ unchanged = FALSE
  /\ secondRun = FALSE
  /\ settled = FALSE
  /\ ownCache = FALSE
  /\ edits = 0
  /\ call = NoCall
  /\ shown = NoShown
  /\ thr = << >>
  /\ rw = Unlocked
  /\ msgDir = << >>
  /\ front = NoFront
  /\ wr = << >>

\* The clock, the assistant appending to a log, and the refresh command.
NextStale ==
  \/ Tick
  \/ \E p \in Paths : \E c \in GrownContents(p) : WriteSession(p, c)
  \/ RefreshRead
  \/ RefreshBuild(NoPath, "stat")
  \/ RefreshWrite

SpecStale == InitStale /\ [][NextStale]_vars

\* --------------------------------------------------- claims on staleness
\* The entry a parse of the session's file as it is now on disk gives.
FreshParse(id) == ExtractMeta(id, sessionPaths, fs, dataDirOK)

\* The entry as the index holds it: written to the cache file and read back.
Indexed(e) == Read(Write(<< e >>))

\* C30: when a refresh runs from its read of the cache to its write with
\* no change on disk in between (whatever was modified before it began,
\* also during the refresh before it, after the session was parsed and
\* before the cache was written), and the cache it reads holds only entries
\* that refreshes made by parsing, every entry it returns and writes for a
\* session whose file parses is, as the cache file holds it, the entry a
\* fresh parse gives.
C30_AsStated ==
  [][ (RefreshWrite /\ settled /\ ownCache /\ build.err = "nil") =>
        \A i \in 1..Len(build.entries) :
          FreshParse(build.entries[i].SessionID).err = "nil" =>
            Indexed(build.entries[i])
              = Indexed(MetaEntry(FreshParse(build.entries[i].SessionID).meta))
    ]_vars


\* ------------------------------------------------------- the front ends
\* time.Hour, in ticks of the model's clock.
Hour == 2

\* Refresh keys a user presses in one behaviour.
MaxKeys == 2

\* existing, _ := cache.Read(cacheFile): no entries when the file is missing.
ReadCache(cache) == IF cache.exists THEN Read(cache.data) ELSE << >>

\* The cache file after cache.Write(cacheFile, entries) at time t.
Written(entries, t) == [exists |-> TRUE, mtime |-> t, data |-> Write(entries)]

\* cache.BuildFrom(adapter): BuildIncremental(adapter, "", nil).
BuildFrom(paths, files, dirOK) ==
  BuildIncremental(NoCache, << >>, paths, files, files, files, dirOK)

\* cache.BuildIncremental(adapter, cacheFile, entries) with nothing else
\* at work on the disk meanwhile.
BuildOver(cache, entries, paths, files, dirOK) ==
  BuildIncremental(cache, entries, paths, files, files, files, dirOK)

\* s without its i-th element.
Drop(s, i) == SubSeq(s, 1, i - 1) \o SubSeq(s, i + 1, Len(s))

\* A completed recomputation is recorded.
Completed(done, b) == [n |-> done.n + 1, entries |-> b.entries, err |-> b.err]

\* What the front ends leave alone.
beyondFront ==
  << now, fs, dataDirOK, pc, existing, build, alone, parsedBefore, parsedAgain, unchanged,
     secondRun, settled, ownCache, edits, call, shown, thr, rw, msgDir, wr >>

\* Run of the Bubble Tea interface: NewModel, and Init returns loadSessions.
TeaRun ==
  /\ front.ui = "none"
  /\ front' = [NoFront EXCEPT !.ui = "tea", !.running = << "load" >>]
  /\ UNCHANGED << cacheFile, sessionPaths >> /\ UNCHANGED beyondFront

\* The message loadSessions returns, given the build it makes when the
\* cache cannot be read.
LoadMsg(cache, b) ==
  IF cache.exists
  THEN [kind |-> "load", entries |-> Read(cache.data), err |-> "nil", cached |-> TRUE]
  ELSE [kind |-> "load", entries |-> b.entries, err |-> b.err, cached |-> FALSE]

\* The command loadSessions runs: the cache is read; without a cache file
\* the entries are built and written.
LoadCmd(i, b) ==
  /\ i \in 1..Len(front.running) /\ front.running[i] = "load"
  /\ cacheFile' = IF ~ cacheFile.exists /\ b.err = "nil" THEN Written(b.entries, now)
                  ELSE cacheFile
  /\ sessionPaths' = IF cacheFile.exists THEN sessionPaths ELSE b.sessionPaths
  /\ front' = [front EXCEPT
                 !.running = Drop(front.running, i),
                 !.msgs = Append(front.msgs, LoadMsg(cacheFile, b)),
                 !.done = IF cacheFile.exists THEN front.done ELSE Completed(front.done, b)]
  /\ UNCHANGED beyondFront

\* Update on the refresh key: loading is set and refreshCache is returned.
RefreshKey ==
  /\ front.ui = "tea"
  /\ front.keys < MaxKeys
  /\ front' = [front EXCEPT !.loading = TRUE, !.keys = front.keys + 1,
                            !.running = Append(front.running, "refresh")]
  /\ UNCHANGED << cacheFile, sessionPaths >> /\ UNCHANGED beyondFront

\* The command refreshCache runs; b is what BuildIncremental returns.
RefreshCmd(i, b) ==
  /\ i \in 1..Len(front.running) /\ front.running[i] = "refresh"
  /\ cacheFile' = IF b.err = "nil" THEN Written(b.entries, now) ELSE cacheFile
  /\ sessionPaths' = b.sessionPaths
  /\ front' = [front EXCEPT
                 !.running = Drop(front.running, i),
                 !.msgs = Append(front.msgs, [kind |-> "refresh", entries |-> b.entries,
                                              err |-> b.err, cached |-> FALSE]),
                 !.done = Completed(front.done, b)]
  /\ UNCHANGED beyondFront

\* Update on loadSessionsMsg or refreshCacheMsg: the sessions are replaced
\* unless the message carries an error, and loading is cleared.
UpdateOnMsg ==
  /\ front.ui = "tea"
  /\ front.msgs # << >>
  /\ front' = [front EXCEPT
                 !.msgs = Tail(front.msgs),
                 !.listing = IF Head(front.msgs).err = "nil" THEN Head(front.msgs).entries
                             ELSE front.listing,
                 !.served = IF Head(front.msgs).kind = "load"
                            THEN Head(front.msgs).cached /\ Head(front.msgs).err = "nil"
                            ELSE front.served,
                 !.loading = FALSE]
  /\ UNCHANGED << cacheFile, sessionPaths >> /\ UNCHANGED beyondFront

\* The cache file once Run has made sure that it exists.
Ensured(cache, t) == IF cache.exists THEN cache ELSE Written(<< >>, t)

\* time.Since(cacheInfo.ModTime()) < time.Hour
CacheFresh(cache, t) == cache.exists /\ t - cache.mtime < Hour

\* Run of the fzf picker: the cache is read and shown under the loading
\* header, and the background goroutine is started.
PickerStarted(ui, cache, t, had) ==
  [NoFront EXCEPT !.ui = ui, !.listing = Read(cache.data), !.loading = TRUE,
                  !.startup = Read(cache.data), !.fresh = CacheFresh(cache, t),
                  !.running = << "bg" >>, !.served = had /\ Read(cache.data) # << >>]

PickerRun ==
  /\ front.ui = "none"
  /\ cacheFile' = Ensured(cacheFile, now)
  /\ front' = PickerStarted("picker", cacheFile', now, cacheFile.exists)
  /\ UNCHANGED sessionPaths /\ UNCHANGED beyondFront

\* The goroutine of the picker: unless the cache is fresh and has entries,
\* BuildFrom and Write, then a reload is posted; else only the header.
PickerJob(b) ==
  /\ front.ui = "picker" /\ front.running = << "bg" >>
  /\ IF ~ front.fresh \/ front.startup = << >>
     THEN /\ cacheFile' = IF b.err = "nil" THEN Written(b.entries, now) ELSE cacheFile
          /\ sessionPaths' = b.sessionPaths
          /\ front' = [front EXCEPT !.running = << >>, !.reload = TRUE,
                                    !.done = Completed(front.done, b)]
     ELSE /\ front' = [front EXCEPT !.running = << >>, !.loading = FALSE]
          /\ UNCHANGED << cacheFile, sessionPaths >>
  /\ UNCHANGED beyondFront

\* Run of the picker of package export: the same start.
ExportRun ==
  /\ front.ui = "none"
  /\ cacheFile' = Ensured(cacheFile, now)
  /\ front' = PickerStarted("export", cacheFile', now, cacheFile.exists)
  /\ UNCHANGED sessionPaths /\ UNCHANGED beyondFront

\* changed: the lengths differ, or one of the first five ids does.
Changed(newEntries, entries) ==
  \/ Len(newEntries) # Len(entries)
  \/ \E i \in 1..Len(newEntries) : i <= 5 /\ newEntries[i].SessionID # entries[i].SessionID

\* The goroutine of package export's picker: BuildIncremental over the
\* entries read at startup; when changed, Write and a reload; else only the
\* header.
ExportJob(b) ==
  /\ front.ui = "export" /\ front.running = << "bg" >>
  /\ sessionPaths' = b.sessionPaths
  /\ IF b.err = "nil" /\ Changed(b.entries, front.startup)
     THEN /\ cacheFile' = Written(b.entries, now)
          /\ front' = [front EXCEPT !.running = << >>, !.reload = TRUE,
                                    !.done = Completed(front.done, b)]
     ELSE /\ front' = [front EXCEPT !.running = << >>, !.loading = FALSE,
                                    !.done = Completed(front.done, b)]
          /\ UNCHANGED cacheFile
  /\ UNCHANGED beyondFront

\* fzf runs the rebuild subcommand of a reload (a new process, b is what its
\* build returns) and shows the rows it prints.
Reload(b) ==
  /\ front.reload
  /\ cacheFile' = IF b.err = "nil" THEN Written(b.entries, now) ELSE cacheFile
  /\ front' = [front EXCEPT !.reload = FALSE, !.loading = FALSE,
                            !.listing = IF b.err = "nil" THEN b.entries ELSE << >>,
                            !.done = Completed(front.done, b)]
  /\ UNCHANGED sessionPaths /\ UNCHANGED beyondFront

\* Session a, and b or not; no cache, or one written at time 0 or 1 by an
\* earlier run: the outdated one of Init, or the one a build of these files
\* gives.
InitFront ==
  /\ now = 1
  /\ \E fb \in {NoFile, File(0, TRUE, BranchLines)} :
       fs = [p \in Paths |-> IF p = PathA THEN File(0, TRUE, HelloLines)
                             ELSE IF p = PathB THEN fb ELSE NoFile]
  /\ dataDirOK = TRUE
  /\ cacheFile \in {NoCache}
                   \cup {Written(es, t) : es \in {OldEntries, BuildFrom(<< >>, fs, TRUE).entries},
                                          t \in {0, 1}}
  /\ sessionPaths = << >>
  /\ pc = "idle"
  /\ existing = << >>
  /\ build = NoBuild
  /\ alone = << >>
  /\ parsedBefore = {}
  /\ parsedAgain = {}
  /\ unchanged = FALSE
  /\ secondRun = FALSE
  /\ settled = FALSE
  /\ ownCache = FALSE
  /\ edits = 0
  /\ call = NoCall
  /\ shown = NoShown
  /\ thr = << >>
  /\ rw = Unlocked
  /\ msgDir = << >>
  /\ front = NoFront
  /\ wr = << >>

NextFront ==
  \/ Tick
  \/ \E p \in Paths : \E c \in GrownContents(p) : WriteSession(p, c)
  \/ TeaRun
  \/ \E i \in 1..(MaxKeys + 1) : LoadCmd(i, BuildOver(cacheFile, << >>, sessionPaths, fs, dataDirOK))
  \/ RefreshKey
  \/ \E i \in 1..(MaxKeys + 1) :
       RefreshCmd(i, BuildOver(cacheFile, ReadCache(cacheFile), sessionPaths, fs, dataDirOK))
  \/ UpdateOnMsg
  \/ PickerRun
  \/ PickerJob(BuildFrom(sessionPaths, fs, dataDirOK))
  \/ ExportRun
  \/ ExportJob(BuildOver(cacheFile, front.startup, sessionPaths, fs, dataDirOK))
  \/ (front.ui = "picker" /\ Reload(BuildFrom(<< >>, fs, dataDirOK)))
  \/ (front.ui = "export"
      /\ Reload(BuildOver(cacheFile, ReadCache(cacheFile), << >>, fs, dataDirOK)))

SpecFront == InitFront /\ [][NextFront]_vars

\* ------------------------------------------------ claims on the front ends
\* No command is in flight, no message waits and no reload is due.
Quiet == front.running = << >> /\ front.msgs = << >> /\ ~ front.reload

\* C31: when a front end has shown at startup the listing of a cache file
\* that was there, the user has pressed no key and nothing is in flight any
\* more, a recomputation has completed, and unless it failed the listing on
\* display is the one it returned.
C31_AsStated ==
  (front.ui # "none" /\ front.served /\ front.keys = 0 /\ Quiet) =>
    /\ front.done.n > 0
    /\ front.done.err = "nil" => front.listing = front.done.entries


\* ------------------------------------------------ concurrent cache writes
\* Refreshes that reach cache.Write in one behaviour.
MaxWriters == 2

\* The byte of a hole: a write beyond the end of a file fills with zeros.
NUL == "NUL"

\* The lines cache.Write hands to f.WriteString, one call for each.
Rows(entries) == [i \in 1..Len(entries) |-> WriteLine(entries[i])]

\* The file's bytes after a write of row at offset off.
PutAt(data, off, row) ==
  [k \in 1..(IF Len(data) > off + Len(row) THEN Len(data) ELSE off + Len(row)) |->
     IF k > off /\ k <= off + Len(row) THEN row[k - off]
     ELSE IF k <= Len(data) THEN data[k]
     ELSE NUL]

\* What the cache writes leave alone.
beyondWrite ==
  << dataDirOK, fs, pc, existing, build, alone, parsedBefore, parsedAgain, unchanged,
     secondRun, settled, ownCache, edits, call, shown, thr, rw, msgDir, front >>

\* A refresh (refreshCache, or the rebuild subcommand) has read the cache
\* and built; b is what BuildIncremental returned without error.  It enters
\* cache.Write: os.Create makes the file or truncates it.
BeginWrite(b) ==
  /\ Len(wr) < MaxWriters
  /\ b.err = "nil"
  /\ cacheFile' = [exists |-> TRUE, mtime |-> now, data |-> << >>]
  /\ sessionPaths' = b.sessionPaths
  /\ wr' = Append(wr, [entries |-> b.entries, rows |-> Rows(b.entries), off |-> 0,
                       closed |-> FALSE])
  /\ UNCHANGED now /\ UNCHANGED beyondWrite

\* f.WriteString(line) of the i-th writer, at the offset of its own file
\* descriptor.
WriteRow(i) ==
  /\ i \in 1..Len(wr)
  /\ wr[i].rows # << >>
  /\ cacheFile' = [cacheFile EXCEPT !.data = PutAt(cacheFile.data, wr[i].off, Head(wr[i].rows)),
                                    !.mtime = now]
  /\ wr' = [wr EXCEPT ![i].rows = Tail(wr[i].rows),
                      ![i].off = wr[i].off + Len(Head(wr[i].rows))]
  /\ UNCHANGED << now, sessionPaths >> /\ UNCHANGED beyondWrite

\* defer f.Close(): Write returns.
CloseWrite(i) ==
  /\ i \in 1..Len(wr)
  /\ wr[i].rows = << >> /\ ~ wr[i].closed
  /\ wr' = [wr EXCEPT ![i].closed = TRUE]
  /\ UNCHANGED << now, cacheFile, sessionPaths >> /\ UNCHANGED beyondWrite

NextWrite ==
  \/ Tick
  \/ \E p \in Paths : \E c \in GrownContents(p) : WriteSession(p, c)
  \/ BeginWrite(BuildOver(cacheFile, ReadCache(cacheFile), sessionPaths, fs, dataDirOK))
  \/ \E i \in 1..MaxWriters : WriteRow(i)
  \/ \E i \in 1..MaxWriters : CloseWrite(i)

SpecWrite == InitFront /\ [][NextWrite]_vars

\* ------------------------------------------- claims on concurrent writes
\* Every refresh that entered cache.Write has returned from it.
AllClosed == \A i \in 1..Len(wr) : wr[i].closed

\* C32: once two refreshes have both returned from cache.Write, the cache
\* file reads back as the entries that one of them wrote.
C32_AsStated ==
  (Len(wr) >= 2 /\ AllClosed) =>
    \E i \in 1..Len(wr) : Read(cacheFile.data) = Read(Write(wr[i].entries))


\* ------------------------------------------- the adapter and removed files
\* The adapter's calls while another program removes session files.
NextGone ==
  \/ NextAdapter
  \/ \E p \in Paths : RemoveSession(p)

SpecGone == InitAdapter /\ [][NextGone]_vars

\* C33: GetSessionFile(id) returns the empty path, or the path of a file
\* that exists when it returns, whatever ListSessions, GetSessionFile or
\* BranchSession have cached before.
C33_AsStated ==
  [][ \A id \in AskedIds :
        (LookupCall(id) /\ call'.path # NoPath) => fs'[call'.path].exists
    ]_vars


\* ----------------------------------------- composite ids and the lineage
\* The composite ids of a list of ids.
Composite(ids) == {ids[i] : i \in {j \in 1..Len(ids) : Contains(ids[j], SLASH)}}

RebuiltDiffers ==
  /\ front.ui = "export" /\ front.running = << "bg" >> /\ front'.running = << >>
  /\ front'.done.err = "nil"
  /\ Read(Write(front'.done.entries)) # Read(Write(front.startup))

\* C35 as stated: when the startup background refresh of package export's
\* picker completes without error with entries that differ in some field
\* from those read at startup, the cache file then holds the rebuilt entries.
C35_AsStated ==
  [][ RebuiltDiffers => ReadCache(cacheFile') = Read(Write(front'.done.entries)) ]_vars


\* A refresh is in flight: a refreshCache command runs, or its completion
\* message waits for Update.
Outstanding(f) ==
  \/ \E i \in 1..Len(f.running) : f.running[i] = "refresh"
  \/ \E i \in 1..Len(f.msgs) : f.msgs[i].kind = "refresh"

\* C36 as stated: in the Bubble Tea model, loading is cleared only by a step
\* after which no refresh remains in flight.
C36_AsStated ==
  [][ (front.ui = "tea" /\ front.loading /\ ~ front'.loading) => ~ Outstanding(front') ]_vars


\* ------------------------------------------- the place of a branch's row
\* The rows of the picker whose first column is id.
RowsOf(id) == {k \in 1..Len(shown.lines) : shown.lines[k][1] = id}

\* The entry b is a branch of the root r of the list.
BranchOfRoot(b, r) == ~ IsRoot(b) /\ IsRoot(r) /\ b.ParentSID = r.SessionID

\* C37 as stated: in the rows of the picker, the row of every branch whose
\* parent is a root of the list stands before the row of its parent, with
\* nothing but rows of branches of the same parent between the two.
C37_AsStated ==
  shown.view = "picker" =>
    \A b, r \in Range(shown.entries) :
      BranchOfRoot(b, r) =>
        \E kb \in RowsOf(b.SessionID) : \E kr \in RowsOf(r.SessionID) :
          /\ kb < kr
          /\ \A k \in (kb + 1)..(kr - 1) : shown.lines[k][6] = r.SessionID


\* ------------------------------------------------------ the quick filters
\* The built-in interface with its quick filters: the sessions of m.sessions
\* (none before the load message), the filter in force, and whether Update
\* has panicked.
Week == 7

FilterModes == {"FilterNone", "FilterToday", "FilterWeek", "FilterProject", "FilterHighCost"}

\* Time.AddDate(0, 0, days)
AddDate(t, days) == t + TimeUnix(days * 60 * 60 * 24)

\* The test of the loop of applyFilters on one entry; reference is the date
\* of sessions[0].
Passes(filterMode, filterValue, reference, entry) ==
  IF filterMode = "FilterToday"
  THEN Format20060102(entry.Date) = Format20060102(reference)
  ELSE IF filterMode = "FilterWeek" THEN After(entry.Date, AddDate(reference, 0 - Week))
  ELSE IF filterMode = "FilterProject" THEN entry.Project = filterValue
  ELSE TRUE

\* applyFilters(sessions) under the filter in force: the sessions it
\* returns, or the panic of sessions[0] on an empty list.
applyFiltersBy(filterMode, filterValue, sessions) ==
  IF filterMode = "FilterNone" THEN [panic |-> FALSE, sessions |-> sessions]
  ELSE IF sessions = << >> THEN [panic |-> TRUE, sessions |-> << >>]
  ELSE LET filtered ==
             SelectSeq(sessions,
                       LAMBDA e : Passes(filterMode, filterValue, sessions[1].Date, e))
       IN  [panic |-> FALSE, sessions |-> IF filtered = << >> THEN sessions ELSE filtered]

\* The model after updateListItems under the filter in force; f is what
\* applyFilters returned.
Relisted(m, f) ==
  IF f.panic THEN [m EXCEPT !.crashed = TRUE]
  ELSE [m EXCEPT !.items = MainItems(SortMain(SelectSeq(f.sessions, IsRoot), m.pins),
                                     f.sessions, m.pins, 1, "")]

\* The model with the filter set, then updateListItems.
Refiltered(m, filterMode, filterValue) ==
  Relisted([m EXCEPT !.filterMode = filterMode, !.filterValue = filterValue],
           applyFiltersBy(filterMode, filterValue, m.entries))

\* Update on loadSessionsMsg with the entries of the cache.
LoadFiltered ==
  /\ shown.view = "list" /\ ~ shown.crashed /\ ~ shown.loaded
  /\ shown' = Relisted([shown EXCEPT !.entries = shown.disk, !.loaded = TRUE],
                       applyFiltersBy(shown.filterMode, shown.filterValue, shown.disk))
  /\ UNCHANGED beyondView

\* Update on the key of the today, week or cost filter: the filter is set,
\* or cleared when it was in force.
FilterKey(filterMode) ==
  /\ shown.view = "list" /\ ~ shown.crashed
  /\ shown' = Refiltered(shown,
                         IF shown.filterMode = filterMode THEN "FilterNone" ELSE filterMode,
                         shown.filterValue)
  /\ UNCHANGED beyondView

\* Update on the key of the project filter with the i-th item selected.
ProjectKey(i) ==
  /\ shown.view = "list" /\ ~ shown.crashed
  /\ i \in 1..Len(shown.items)
  /\ shown.items[i].kind = "session"
  /\ shown' = IF /\ shown.filterMode = "FilterProject"
                 /\ shown.filterValue = shown.items[i].entry.Project
              THEN Refiltered(shown, "FilterNone", shown.filterValue)
              ELSE Refiltered(shown, "FilterProject", shown.items[i].entry.Project)
  /\ UNCHANGED beyondView

\* The entries a cache file may hold here: of two projects, of three days
\* of which the last is more than a week after the first.
FilterDates == {0, TimeUnix(60 * 60 * 24), TimeUnix((Week + 1) * 60 * 60 * 24)}

FilterEntries ==
  {Entry(ViewIds[i], d, pr, << "s" >>, par) :
     i \in 1..2, d \in FilterDates, pr \in {<< "p" >>, << "q" >>},
     par \in {EmptyStr, ViewIds[1]}}

FilterLists ==
  {es \in UNION {[1..n -> FilterEntries] : n \in 0..2} :
     \A i, j \in 1..Len(es) : i # j => es[i].SessionID # es[j].SessionID}

\* NewModel: no sessions, no filter; the load message is on its way.
InitFilter ==
  /\ \E es \in FilterLists :
       shown = [entries |-> << >>, pins |-> {}, lines |-> << >>, items |-> << >>,
                view |-> "list", disk |-> es, loaded |-> FALSE,
                filterMode |-> "FilterNone", filterValue |-> EmptyStr, crashed |-> FALSE]
  /\ now = 1
  /\ fs = [p \in Paths |-> NoFile]
  /\ dataDirOK = TRUE
  /\ sessionPaths = << >>
  /\ call = NoCall
  /\ cacheFile = NoCache
  /\ pc = "idle"
  /\ existing = << >>
  /\ build = NoBuild
  /\ alone = << >>
  /\ parsedBefore = {}
  /\ parsedAgain = {}
  /\ unchanged = FALSE
  /\ secondRun = FALSE
  /\ settled = FALSE
  /\ ownCache = FALSE
  /\ edits = 0
  /\ thr = << >>
  /\ rw = Unlocked
  /\ msgDir = << >>
  /\ front = NoFront
  /\ wr = << >>

NextFilter ==
  \/ LoadFiltered
  \/ \E filterMode \in {"FilterToday", "FilterWeek", "FilterHighCost"} : FilterKey(filterMode)
  \/ \E i \in 1..4 : ProjectKey(i)

SpecFilter == InitFilter /\ [][NextFilter]_vars

\* C38 as stated: whatever the filter and the sessions, none included, Update
\* never panics while it rebuilds the items of the list.
C38_AsStated == shown.view = "list" => ~ shown.crashed


\* ------------------------------------------------------------ the pins
\* A Pins made by NewPins and the Toggle calls on it, with what the calls
\* were: how often each id was toggled, the last call and what it returned,
\* and the pins before the last call and before the last two.
MaxToggles == 5

PinIds == {ViewIds[i] : i \in 1..Len(ViewIds)}

\* What Toggle(id) returns: false when it removed id, true when it added it.
ToggleResult(pins, id) == id \notin pins

\* pins.IsPinned(id)
IsPinned(pins, id) == id \in pins

\* pins.Count()
Count(pins) == Cardinality(pins)

\* pins.Toggle(id)
ToggleCall(id) ==
  /\ shown.view = "pins"
  /\ shown.calls < MaxToggles
  /\ shown' = [shown EXCEPT
                 !.pins = Toggle(shown.pins, id),
                 !.calls = shown.calls + 1,
                 !.times = [shown.times EXCEPT ![id] = shown.times[id] + 1],
                 !.last = [id |-> id, result |-> ToggleResult(shown.pins, id)],
                 !.twice = (shown.calls > 0 /\ shown.last.id = id),
                 !.before = shown.pins,
                 !.before2 = shown.before]
  /\ UNCHANGED beyondView

\* NewPins: no id is pinned.
InitPins ==
  /\ shown = [entries |-> << >>, pins |-> {}, lines |-> << >>, items |-> << >>,
              view |-> "pins", calls |-> 0, times |-> [id \in PinIds |-> 0],
              last |-> [id |-> EmptyStr, result |-> FALSE], twice |-> FALSE,
              before |-> {}, before2 |-> {}]
  /\ now = 1
  /\ fs = [p \in Paths |-> NoFile]
  /\ dataDirOK = TRUE
  /\ sessionPaths = << >>
  /\ call = NoCall
  /\ cacheFile = NoCache
  /\ pc = "idle"
  /\ existing = << >>
  /\ build = NoBuild
  /\ alone = << >>
  /\ parsedBefore = {}
  /\ parsedAgain = {}
  /\ unchanged = FALSE
  /\ secondRun = FALSE
  /\ settled = FALSE
  /\ ownCache = FALSE
  /\ edits = 0
  /\ thr = << >>
  /\ rw = Unlocked
  /\ msgDir = << >>
  /\ front = NoFront
  /\ wr = << >>

NextPins == \E id \in PinIds : ToggleCall(id)

SpecPins == InitPins /\ [][NextPins]_vars

\* The ids toggled an odd number of times.
OddlyToggled == {id \in PinIds : shown.times[id] % 2 = 1}

\* C39: after any sequence of Toggle calls on a new Pins, the last call
\* returned true exactly when its id is pinned now, an id is pinned exactly
\* when it was toggled an odd number of times, Count is the number of pinned
\* ids, and two calls in a row with the same id leave the pins as they were.
C39_ToggleSet ==
  (shown.view = "pins" /\ shown.calls > 0) =>
    /\ shown.last.result = IsPinned(shown.pins, shown.last.id)
    /\ \A id \in PinIds : IsPinned(shown.pins, id) <=> id \in OddlyToggled
    /\ Count(shown.pins) = Cardinality(OddlyToggled)
    /\ shown.twice => shown.pins = shown.before2

\* An id was just toggled twice in a row and is unpinned again, while
\* another id, toggled once, stays pinned.
C39_Witness ==
  /\ shown.view = "pins" /\ shown.twice
  /\ ~ shown.last.result
  /\ shown.times[shown.last.id] = 2
  /\ Count(shown.pins) = 1
  /\ shown.before2 = shown.pins

====
